---- MODULE Spec2Model ----
(***************************************************************************)
(* AuditTracker: the state store (StateManager), the scope set, the        *)
(* reconciler (setFileFunctions) and the serialized save queue.            *)
(*                                                                         *)
(* Strings that the code inspects character by character (paths) are       *)
(* sequences of one-character strings, so that startsWith and the path     *)
(* separator are computed, not assumed.                                    *)
(***************************************************************************)
EXTENDS Integers, Sequences, FiniteSets, TLC

VARIABLES scopePaths, excludedPaths, functionFilters, files, progressHistory,
          lastModified, saves, disk, lastOp, inFlight, staleItems

vars == <<scopePaths, excludedPaths, functionFilters, files, progressHistory,
          lastModified, saves, disk, lastOp, inFlight, staleItems>>

stateVars == <<scopePaths, excludedPaths, functionFilters, files, progressHistory>>

saveVars == <<lastModified, saves, disk>>

\* The host's side of the session: the file-change handlers that have passed
\* their scope check and await the symbol refresh, and the function records
\* that panel items still hold after the store replaced them.
uiVars == <<inFlight, staleItems>>

----------------------------------------------------------------------------
(* Paths.  path.sep on the platforms the extension runs its path logic on. *)

Sep == "/"

RepoDir == <<"/", "r">>

SrcDir == <<"/", "r", "/", "s">>

FileA == <<"/", "r", "/", "s", "/", "a">>

FileB == <<"/", "r", "/", "s", "/", "b">>

\* A sibling of SrcDir that shares its string prefix ("/r/s2" against "/r/s").
FileS2 == <<"/", "r", "/", "s", "2">>

FilePaths == {FileA, FileB, FileS2}

Paths == {RepoDir, SrcDir} \cup FilePaths

----------------------------------------------------------------------------
(* Array and string helpers, as the JavaScript built-ins compute them.     *)

Range(arr) == {arr[i] : i \in 1..Len(arr)}

\* Array.prototype.includes
Includes(arr, x) == \E i \in 1..Len(arr) : arr[i] = x

\* arr.filter((p) => p !== x)
Without(arr, x) == SelectSeq(arr, LAMBDA p : p # x)

\* String.prototype.startsWith
StartsWith(str, prefix) ==
  /\ Len(prefix) <= Len(str)
  /\ SubSeq(str, 1, Len(prefix)) = prefix

NoDuplicates(arr) == \A i, j \in 1..Len(arr) : arr[i] = arr[j] => i = j

----------------------------------------------------------------------------
(* Function records.  A JavaScript property that an object literal leaves  *)
(* out reads as undefined; isAdmin is therefore three-valued.              *)

Undefined == "undefined"

JsBool(b) == IF b THEN "true" ELSE "false"

\* JavaScript truthiness of an isAdmin value (if (fn.isAdmin), Boolean(fn.isAdmin)).
Truthy(v) == v = "true"

Names == {"f", "g"}

\* Start lines a symbol provider reports (0-indexed range.start.line).
StartLines == {10, 40}

\* `${filePath}#${displayName}#${symbol.range.start.line}`
FunctionId(filePath, name, startLine) == <<filePath, name, startLine>>

\* The longest list of symbols a provider returns for one file.
MaxSymbols == 2

\* vscode.DocumentSymbol values, flat: name (already cleaned), kind, range.
\* The end line depends on the symbol, so that a body that moves changes both
\* its start and its end line.
DocumentSymbols ==
  { [name |-> n, startLine |-> l, kind |-> k,
     endLine |-> l + (IF n = "f" THEN 0 ELSE 5)] :
      n \in Names, k \in {"Function", "Variable"}, l \in StartLines }

SymbolLists == UNION { [1..n -> DocumentSymbols] : n \in 0..MaxSymbols }

\* SymbolExtractor.isFunctionLike, for the kinds the model draws.
IsFunctionLike(kind) == kind \in {"Function", "Method", "Constructor",
                                  "Event", "Operator", "Property"}

\* A fresh record that counts as read already.
NewFunctionState_read(filePath, symbol) ==
  [ filePath     |-> filePath,
    name         |-> symbol.name,
    startLine    |-> symbol.startLine,
    endLine      |-> symbol.endLine,
    id           |-> FunctionId(filePath, symbol.name, symbol.startLine),
    readCount    |-> 1,
    isReviewed   |-> FALSE,
    isEntrypoint |-> FALSE,
    isAdmin      |-> Undefined,
    isHidden     |-> FALSE ]

\* The FunctionState that flattenSymbols pushes for one function-like symbol.
\* The object literal sets no isAdmin.
NewFunctionState(filePath, symbol) ==
  [ filePath     |-> filePath,
    name         |-> symbol.name,
    startLine    |-> symbol.startLine,
    endLine      |-> symbol.endLine,
    id           |-> FunctionId(filePath, symbol.name, symbol.startLine),
    readCount    |-> 0,
    isReviewed   |-> FALSE,
    isEntrypoint |-> FALSE,
    isAdmin      |-> Undefined,
    isHidden     |-> FALSE ]

RECURSIVE FlattenSymbols(_, _)
FlattenSymbols(symbols, filePath) ==
  IF symbols = <<>> THEN <<>>
  ELSE LET symbol == Head(symbols)
           rest   == FlattenSymbols(Tail(symbols), filePath)
       IN  IF IsFunctionLike(symbol.kind)
             THEN <<NewFunctionState(filePath, symbol)>> \o rest
             ELSE rest

\* Keeps the first symbol found at each start line.
RECURSIVE DedupFrom(_, _)
DedupFrom(symbols, seen) ==
  IF symbols = <<>> THEN <<>>
  ELSE LET symbol == Head(symbols)
       IN  IF symbol.startLine \in seen
             THEN DedupFrom(Tail(symbols), seen)
             ELSE <<symbol>> \o DedupFrom(Tail(symbols), seen \cup {symbol.startLine})

DeduplicateSymbols(symbols) == DedupFrom(symbols, {})

\* extractSymbols: no symbols (or a throwing provider) gives the empty list.
ExtractSymbols(filePath, symbols) ==
  IF Len(symbols) = 0 THEN <<>>
  ELSE DeduplicateSymbols(FlattenSymbols(symbols, filePath))

\* Every list extractSymbols can hand to setFileFunctions for a file.
ExtractorOutputs(filePath) == { ExtractSymbols(filePath, l) : l \in SymbolLists }

----------------------------------------------------------------------------
(* StateManager: the in-memory state and its methods.                      *)

\* DEFAULT_FUNCTION_FILTERS, copied by createDefaultState.
DefaultFunctionFilters ==
  [statuses |-> <<"unread", "read", "reviewed">>, tags |-> <<>>]

\* files: a map keyed by absolute file path.
NoFiles == [p \in {} |-> <<>>]

\* lastOp: the last method called and its arguments; for setFileFunctions the
\* ids of the function list the file had before the call (prev), for
\* removeScopePath the files tracked before the call (keys).
NoOp == [op |-> "none", path |-> <<>>, fns |-> <<>>, prev |-> <<>>, keys |-> {}]

Op(name, path, fns) ==
  [op |-> name, path |-> path, fns |-> fns, prev |-> <<>>, keys |-> {}]

\* isPathExcluded
IsPathExcluded(excluded, filePath) == Includes(excluded, filePath)

\* startsWith without the separator: every string prefix counts as an ancestor.
PathInScope_noSep(scope, excluded, filePath) ==
  IF IsPathExcluded(excluded, filePath) THEN FALSE
  ELSE \E i \in 1..Len(scope) :
         filePath = scope[i] \/ StartsWith(filePath, scope[i])

\* Exclusion consulted only for inherited inclusion, not for an exact entry.
PathInScope_exactWins(scope, excluded, filePath) ==
  \E i \in 1..Len(scope) :
     \/ filePath = scope[i]
     \/ /\ ~IsPathExcluded(excluded, filePath)
        /\ StartsWith(filePath, scope[i] \o <<Sep>>)

\* isPathInScope, over explicit scope and excluded lists.
PathInScope(scope, excluded, filePath) ==
  IF IsPathExcluded(excluded, filePath) THEN FALSE
  ELSE \E i \in 1..Len(scope) :
         filePath = scope[i] \/ StartsWith(filePath, scope[i] \o <<Sep>>)

IsPathInScope(filePath) == PathInScope(scopePaths, excludedPaths, filePath)

\* The longest scopePaths list the model builds.
MaxScopePaths == 3

AddScopePath(filePath) ==
  /\ Len(scopePaths) < MaxScopePaths \/ Includes(scopePaths, filePath)
  /\ scopePaths' = IF ~Includes(scopePaths, filePath)
                     THEN Append(scopePaths, filePath)
                     ELSE scopePaths
  /\ lastOp' = Op("addScopePath", filePath, <<>>)
  /\ UNCHANGED <<excludedPaths, functionFilters, files, progressHistory, saveVars, uiVars>>

AddExcludedPath(filePath) ==
  /\ excludedPaths' = IF ~Includes(excludedPaths, filePath)
                        THEN Append(excludedPaths, filePath)
                        ELSE excludedPaths
  /\ lastOp' = Op("addExcludedPath", filePath, <<>>)
  /\ UNCHANGED <<scopePaths, functionFilters, files, progressHistory, saveVars, uiVars>>

RemoveExcludedPath(filePath) ==
  /\ excludedPaths' = Without(excludedPaths, filePath)
  /\ lastOp' = Op("removeExcludedPath", filePath, <<>>)
  /\ UNCHANGED <<scopePaths, functionFilters, files, progressHistory, saveVars, uiVars>>

\* Keeps every tracked file, in scope or not.
KeepInScope_keepAll(fs, scope, excluded) == fs

\* The loop of removeScopePath: delete every key that is not in scope.
KeepInScope(fs, scope, excluded) ==
  [key \in {k \in DOMAIN fs : PathInScope(scope, excluded, k)} |-> fs[key]]

RemoveScopePath(filePath) ==
  /\ scopePaths' = Without(scopePaths, filePath)
  /\ files' = KeepInScope(files, scopePaths', excludedPaths)
  /\ lastOp' = [Op("removeScopePath", filePath, <<>>) EXCEPT !.keys = DOMAIN files]
  /\ UNCHANGED <<excludedPaths, functionFilters, progressHistory, saveVars, uiVars>>

RemoveFile(filePath) ==
  /\ files' = [key \in DOMAIN files \ {filePath} |-> files[key]]
  /\ lastOp' = Op("removeFile", filePath, <<>>)
  /\ UNCHANGED <<scopePaths, excludedPaths, functionFilters, progressHistory, saveVars, uiVars>>

----------------------------------------------------------------------------
(* The reconciler.                                                         *)

\* Map.get after the loop of Map.set calls over `existing`: the last record
\* set under a key wins.  The index of that record, 0 when the key is absent.
LastIndex(indices) ==
  IF indices = {} THEN 0
  ELSE CHOOSE i \in indices : \A j \in indices : j <= i

ExistingById(existing, id) ==
  LastIndex({i \in 1..Len(existing) : existing[i].id = id})

ExistingByName(existing, name) ==
  LastIndex({i \in 1..Len(existing) : existing[i].name = name})

\* Matching on the id alone: a function whose line moved is a new function.
MatchIndex_idOnly(existing, fn) == ExistingById(existing, fn.id)

\* Matching on the name before the id.
MatchIndex_nameFirst(existing, fn) ==
  IF ExistingByName(existing, fn.name) # 0
    THEN ExistingByName(existing, fn.name)
    ELSE ExistingById(existing, fn.id)

\* existingById.get(fn.id), and existingByName.get(fn.name) when that is undefined.
MatchIndex(existing, fn) ==
  IF ExistingById(existing, fn.id) # 0
    THEN ExistingById(existing, fn.id)
    ELSE ExistingByName(existing, fn.name)

\* A copy-everything merge: the stored span wins over the candidate's.
MergedFunction_startLineKept(fn, existing) ==
  [fn EXCEPT !.readCount    = existing.readCount,
             !.isReviewed   = existing.isReviewed,
             !.isEntrypoint = existing.isEntrypoint,
             !.isAdmin      = existing.isAdmin,
             !.isHidden     = existing.isHidden,
             !.startLine    = existing.startLine,
             !.endLine      = existing.endLine]

\* A merge that carries the read and reviewed state only.
MergedFunction_readOnly(fn, existing) ==
  [fn EXCEPT !.readCount  = existing.readCount,
             !.isReviewed = existing.isReviewed]

\* { ...fn, readCount: existing.readCount, ... }
MergedFunction(fn, existing) ==
  [fn EXCEPT !.readCount    = existing.readCount,
             !.isReviewed   = existing.isReviewed,
             !.isEntrypoint = existing.isEntrypoint,
             !.isAdmin      = existing.isAdmin,
             !.isHidden     = existing.isHidden]

\* The merged candidates followed by the previous records no candidate matched.
MergeFunctions_keepStale(existing, functions) ==
  [k \in 1..Len(functions) |->
     IF MatchIndex(existing, functions[k]) # 0
       THEN MergedFunction(functions[k], existing[MatchIndex(existing, functions[k])])
       ELSE functions[k]]
  \o SelectSeq(existing,
               LAMBDA old : \A k \in 1..Len(functions) :
                              functions[k].id # old.id /\ functions[k].name # old.name)

\* functions.map(...) over the candidates of an already tracked file.
MergeFunctions(existing, functions) ==
  [k \in 1..Len(functions) |->
     IF MatchIndex(existing, functions[k]) # 0
       THEN MergedFunction(functions[k], existing[MatchIndex(existing, functions[k])])
       ELSE functions[k]]

ScopedFile(filePath, functions) == [filePath |-> filePath, functions |-> functions]

SetFileFunctions(filePath, functions) ==
  /\ files' = IF filePath \in DOMAIN files
                THEN [files EXCEPT ![filePath] =
                        ScopedFile(filePath,
                                   MergeFunctions(files[filePath].functions, functions))]
                ELSE (filePath :> ScopedFile(filePath, functions)) @@ files
  /\ lastOp' = IF filePath \in DOMAIN files
                 THEN [op |-> "setFileFunctions", path |-> filePath,
                       fns |-> functions,
                       prev |-> [i \in 1..Len(files[filePath].functions) |->
                                   files[filePath].functions[i].id],
                       keys |-> {}]
                 ELSE Op("setFileFunctionsNew", filePath, functions)
  /\ UNCHANGED <<scopePaths, excludedPaths, functionFilters, progressHistory, saveVars, uiVars>>

----------------------------------------------------------------------------
(* Flag setters: the first stored function with the id, in the first file  *)
(* that has one, gets the field; nothing happens when no function has it.  *)

HasFunction(file, functionId) ==
  \E i \in 1..Len(file.functions) : file.functions[i].id = functionId

FirstIndex(functions, functionId) ==
  CHOOSE i \in 1..Len(functions) :
    /\ functions[i].id = functionId
    /\ \A j \in 1..(i - 1) : functions[j].id # functionId

\* A setter that writes the field of every stored function with the id.
SetField_everyMatch(functionId, field, value) ==
  files' = [key \in DOMAIN files |->
              [files[key] EXCEPT !.functions =
                 [i \in 1..Len(files[key].functions) |->
                    IF files[key].functions[i].id = functionId
                      THEN [files[key].functions[i] EXCEPT ![field] = value]
                      ELSE files[key].functions[i]]]]

\* Object.values(files) iterates in insertion order, which the map of the model
\* does not record: when several files hold the id, any of them may be first.
SetField(functionId, field, value) ==
  IF \E key \in DOMAIN files : HasFunction(files[key], functionId)
    THEN \E key \in DOMAIN files :
           /\ HasFunction(files[key], functionId)
           /\ files' = [files EXCEPT ![key].functions[
                           FirstIndex(files[key].functions, functionId)][field] = value]
    ELSE files' = files

SetRead(functionId, read) ==
  /\ SetField(functionId, "readCount", IF read THEN 1 ELSE 0)
  /\ lastOp' = Op("setFlag", <<>>, <<>>)
  /\ UNCHANGED <<scopePaths, excludedPaths, functionFilters, progressHistory, saveVars, uiVars>>

SetReviewed(functionId, reviewed) ==
  /\ SetField(functionId, "isReviewed", reviewed)
  /\ lastOp' = Op("setFlag", <<>>, <<>>)
  /\ UNCHANGED <<scopePaths, excludedPaths, functionFilters, progressHistory, saveVars, uiVars>>

SetEntrypoint(functionId, isEntrypoint) ==
  /\ SetField(functionId, "isEntrypoint", isEntrypoint)
  /\ lastOp' = Op("setFlag", <<>>, <<>>)
  /\ UNCHANGED <<scopePaths, excludedPaths, functionFilters, progressHistory, saveVars, uiVars>>

SetAdmin(functionId, isAdmin) ==
  /\ SetField(functionId, "isAdmin", JsBool(isAdmin))
  /\ lastOp' = Op("setFlag", <<>>, <<>>)
  /\ UNCHANGED <<scopePaths, excludedPaths, functionFilters, progressHistory, saveVars, uiVars>>

SetHidden(functionId, isHidden) ==
  /\ SetField(functionId, "isHidden", isHidden)
  /\ lastOp' = Op("setFlag", <<>>, <<>>)
  /\ UNCHANGED <<scopePaths, excludedPaths, functionFilters, progressHistory, saveVars, uiVars>>

----------------------------------------------------------------------------
(* Initial state: createDefaultState(), an idle save chain, no state file. *)

Init ==
  /\ scopePaths = <<>>
  /\ excludedPaths = <<>>
  /\ functionFilters = DefaultFunctionFilters
  /\ files = NoFiles
  /\ progressHistory = <<>>
  /\ lastModified = 0
  /\ saves = <<>>
  /\ disk = <<"none">>
  /\ lastOp = NoOp
  /\ inFlight = {}
  /\ staleItems = {}

----------------------------------------------------------------------------
(* The scope set: scope and excluded paths, and the files they track.      *)

\* What extraction returns for a file in this specification: one function.
ScopeSymbols ==
  << [name |-> "f", startLine |-> 10, kind |-> "Function", endLine |-> 10] >>

\* The files the specification excludes: the two below the source folder.
ExcludablePaths == {FileA, FileB}

NextScope ==
  \/ \E p \in Paths : AddScopePath(p)
  \/ \E p \in Paths : RemoveScopePath(p)
  \/ \E p \in ExcludablePaths : AddExcludedPath(p)
  \/ \E p \in ExcludablePaths : RemoveExcludedPath(p)
  \/ \E p \in FilePaths : SetFileFunctions(p, ExtractSymbols(p, ScopeSymbols))
  \/ \E p \in FilePaths : RemoveFile(p)

SpecScope == Init /\ [][NextScope]_vars

----------------------------------------------------------------------------
(* The reconciler on one file, with the flag setters between extractions.  *)

MergeIds == {FunctionId(FileA, n, l) : n \in Names, l \in StartLines}

\* What extractSymbols can return for the file, over every symbol list.
MergeOutputs == ExtractorOutputs(FileA)

NextMerge ==
  \/ \E fns \in MergeOutputs : SetFileFunctions(FileA, fns)
  \/ RemoveFile(FileA)
  \/ \E id \in MergeIds, b \in BOOLEAN : SetRead(id, b)
  \/ \E id \in MergeIds, b \in BOOLEAN : SetReviewed(id, b)
  \/ \E id \in MergeIds, b \in BOOLEAN : SetEntrypoint(id, b)
  \/ \E id \in MergeIds, b \in BOOLEAN : SetAdmin(id, b)
  \/ \E id \in MergeIds, b \in BOOLEAN : SetHidden(id, b)

SpecMerge == Init /\ [][NextMerge]_vars

----------------------------------------------------------------------------
(* Properties of the reconciler (SpecMerge).                               *)

\* The step that just happened was setFileFunctions on a tracked file.
MergedStep == lastOp'.op = "setFileFunctions"

PrevFunctions == files[lastOp'.path].functions

OutFunctions == files'[lastOp'.path].functions

SameFlags(a, b) ==
  /\ a.readCount = b.readCount
  /\ a.isReviewed = b.isReviewed
  /\ a.isEntrypoint = b.isEntrypoint
  /\ a.isAdmin = b.isAdmin
  /\ a.isHidden = b.isHidden

SameSpan(a, b) ==
  /\ a.id = b.id
  /\ a.name = b.name
  /\ a.startLine = b.startLine
  /\ a.endLine = b.endLine

DefaultFlags(fn) ==
  /\ fn.readCount = 0
  /\ fn.isReviewed = FALSE
  /\ fn.isEntrypoint = FALSE
  /\ ~Truthy(fn.isAdmin)
  /\ fn.isHidden = FALSE

IdMatches(prev, fn) == {i \in 1..Len(prev) : prev[i].id = fn.id}

NameMatches(prev, fn) == {i \in 1..Len(prev) : prev[i].name = fn.name}

CarriesFlags(prev, cands, out) ==
  \A k \in 1..Len(cands) :
    LET from == IF IdMatches(prev, cands[k]) # {}
                  THEN IdMatches(prev, cands[k])
                  ELSE NameMatches(prev, cands[k])
    IN  from # {} =>
          /\ k \in DOMAIN out
          /\ SameSpan(out[k], cands[k])
          /\ \E i \in from : SameFlags(out[k], prev[i])

\* C5: setFileFunctions on a tracked file stores every candidate that matches
\* a previous record by id, or failing that by name, with the five flags of
\* that record and with the candidate's id, name, startLine and endLine; a
\* reviewed function that moved from line 10 to line 40 is reviewed at 40.
C5_MergeCarriesFlags ==
  [][MergedStep => CarriesFlags(PrevFunctions, lastOp'.fns, OutFunctions)]_vars

C5_Witness ==
  /\ lastOp.op = "setFileFunctions"
  /\ lastOp.prev = <<FunctionId(FileA, "f", 10)>>
  /\ \E k \in 1..Len(files[FileA].functions) :
       /\ files[FileA].functions[k].name = "f"
       /\ files[FileA].functions[k].startLine = 40
       /\ files[FileA].functions[k].isReviewed

OnePerCandidate(cands, out) ==
  /\ Len(out) = Len(cands)
  /\ \A k \in 1..Len(cands) : SameSpan(out[k], cands[k])

StaleDropped(prev, cands, out) ==
  \A i \in 1..Len(prev) :
    (\A k \in 1..Len(cands) :
        cands[k].id # prev[i].id /\ cands[k].name # prev[i].name)
    => \A k \in 1..Len(out) :
        out[k].id # prev[i].id /\ out[k].name # prev[i].name

\* C6: after setFileFunctions the file has exactly one record per candidate,
\* in candidate order, and no previous record whose id and name match no
\* candidate.
C6_MergeOnePerCandidate ==
  [][ /\ MergedStep =>
           /\ OnePerCandidate(lastOp'.fns, OutFunctions)
           /\ StaleDropped(PrevFunctions, lastOp'.fns, OutFunctions)
      /\ lastOp'.op = "setFileFunctionsNew" =>
           OnePerCandidate(lastOp'.fns, OutFunctions) ]_vars

C6_Witness ==
  /\ lastOp.op = "setFileFunctions"
  /\ lastOp.prev = <<FunctionId(FileA, "g", 40), FunctionId(FileA, "f", 10)>>
  /\ Len(lastOp.fns) = 1
  /\ Len(files[FileA].functions) = 1
  /\ files[FileA].functions[1].id = FunctionId(FileA, "f", 10)
  /\ files[FileA].functions[1].readCount = 1

UnmatchedAreDefault(prev, cands, out) ==
  \A k \in 1..Len(cands) :
    (IdMatches(prev, cands[k]) = {} /\ NameMatches(prev, cands[k]) = {})
    => k \in DOMAIN out /\ DefaultFlags(out[k])

\* C7: a candidate that matches no previous record by id or by name, and every
\* candidate of a file not tracked before, is stored unread, not reviewed, not
\* entrypoint, not admin and not hidden.
C7_NewCandidatesDefault ==
  [][ /\ MergedStep =>
           UnmatchedAreDefault(PrevFunctions, lastOp'.fns, OutFunctions)
      /\ lastOp'.op = "setFileFunctionsNew" =>
           UnmatchedAreDefault(<<>>, lastOp'.fns, OutFunctions) ]_vars

C7_Witness ==
  /\ lastOp.op = "setFileFunctions"
  /\ lastOp.prev = <<FunctionId(FileA, "f", 10)>>
  /\ Len(files[FileA].functions) = 2
  /\ files[FileA].functions[1].name = "f"
  /\ files[FileA].functions[1].isReviewed
  /\ Truthy(files[FileA].functions[1].isAdmin)
  /\ files[FileA].functions[2].name = "g"
  /\ DefaultFlags(files[FileA].functions[2])

----------------------------------------------------------------------------
(* Properties of the scope set (SpecScope).                                *)

\* p lies below the folder s: s, then the separator, then more.
IsDescendant(p, s) ==
  /\ Len(p) > Len(s)
  /\ \A i \in 1..Len(s) : p[i] = s[i]
  /\ p[Len(s) + 1] = Sep

ShouldBeInScope(scope, excluded, p) ==
  /\ p \notin Range(excluded)
  /\ \E s \in Range(scope) : p = s \/ IsDescendant(p, s)

\* C8: isPathInScope(p) is true exactly when p is not excluded and equals, or
\* lies below (separator-bounded), some scope path; a path that only shares a
\* string prefix with a scope path is not in scope.
C8_InScopeIffCovered ==
  /\ \A p \in Paths :
       IsPathInScope(p) <=> ShouldBeInScope(scopePaths, excludedPaths, p)
  /\ Range(scopePaths) = {SrcDir} => ~IsPathInScope(FileS2)

C8_Witness ==
  /\ scopePaths = <<SrcDir>>
  /\ excludedPaths = <<>>
  /\ IsPathInScope(FileA)
  /\ IsPathInScope(SrcDir)
  /\ ~IsPathInScope(FileS2)

\* C9: an excluded path is never in scope, whatever scope paths equal it or
\* lie above it, and excluding one file changes isPathInScope for no other
\* path.
C9_ExclusionPrecedence ==
  /\ [](\A p \in Range(excludedPaths) : ~IsPathInScope(p))
  /\ [][lastOp'.op = "addExcludedPath" =>
          \A q \in Paths \ {lastOp'.path} :
            PathInScope(scopePaths', excludedPaths', q) = IsPathInScope(q)]_vars

C9_Witness ==
  /\ lastOp.op = "addExcludedPath"
  /\ lastOp.path = FileA
  /\ Range(scopePaths) = {RepoDir, SrcDir, FileA}
  /\ excludedPaths = <<FileA>>
  /\ ~IsPathInScope(FileA)
  /\ IsPathInScope(FileB)

\* C10: after removeScopePath(p), p is not a scope path and the tracked files
\* are exactly the previously tracked files that are still in scope under the
\* remaining scope and excluded paths, each with its record unchanged.
C10_RemoveScopePathPrunes ==
  [][lastOp'.op = "removeScopePath" =>
       /\ lastOp'.path \notin Range(scopePaths')
       /\ DOMAIN files' =
            {k \in DOMAIN files : ShouldBeInScope(scopePaths', excludedPaths', k)}
       /\ \A k \in DOMAIN files' : files'[k] = files[k]]_vars

C10_Witness ==
  /\ lastOp.op = "removeScopePath"
  /\ lastOp.path = SrcDir
  /\ lastOp.keys = {FileA, FileB, FileS2}
  /\ scopePaths = <<FileB>>
  /\ DOMAIN files = {FileB}

----------------------------------------------------------------------------
(* The save queue.  saves[i] is the i-th call of save(): the promise it    *)
(* returned (pending, fulfilled, rejected), how far its runSave got (idle: *)
(* not invoked; mkdir: awaiting createDirectory; write: awaiting           *)
(* writeFile; done, failed: writeFile resolved, rejected), and the         *)
(* document it serialized.  saveChain is the promise of the last call; the *)
(* chain starts as Promise.resolve().  The constructor is only called with *)
(* a workspace root, so save() never takes its early return.               *)

\* The most save() calls of one run of the model.
MaxSaves == 3

\* What JSON.stringify(this.state) captures.
StateDoc(stamp) ==
  [ scopePaths      |-> scopePaths,
    excludedPaths   |-> excludedPaths,
    functionFilters |-> functionFilters,
    files           |-> files,
    progressHistory |-> progressHistory,
    lastModified    |-> stamp ]

\* The state of the promise save number i was chained on.
Predecessor(i) == IF i = 1 THEN "fulfilled" ELSE saves[i - 1].promise

\* runSave called at once, not chained.
PredecessorSettled_unchained(i) == TRUE

\* Chained on the start of the previous runSave, not on its end.
PredecessorSettled_started(i) ==
  IF i = 1 THEN TRUE ELSE saves[i - 1].run # "idle"

\* The reaction registered by then() runs once the promise has settled.
PredecessorSettled(i) == Predecessor(i) \in {"fulfilled", "rejected"}

\* then(runSave): a rejection passes down the chain.
ChainHandler_fulfilledOnly(settled) ==
  IF settled = "fulfilled" THEN "runSave" ELSE "passThrough"

\* then(runSave, runSave): the handler for a fulfilled and for a rejected chain.
ChainHandler(settled) == "runSave"

\* A rejection of writeFile caught like the one of createDirectory.
RunSaveOutcome_swallowed(writeOk) == "fulfilled"

\* runSave awaits writeFile outside any try block.
RunSaveOutcome(writeOk) == IF writeOk THEN "fulfilled" ELSE "rejected"

Save ==
  /\ Len(saves) < MaxSaves
  /\ saves' = Append(saves, [promise |-> "pending", run |-> "idle", doc |-> <<>>])
  /\ lastOp' = Op("save", <<>>, <<>>)
  /\ UNCHANGED <<stateVars, lastModified, disk, uiVars>>

\* The chain settles and its reaction runs: runSave starts (and awaits
\* createDirectory), or, with no handler for the outcome, the promise of this
\* save takes the outcome over.
ChainReact(i) ==
  /\ i \in 1..Len(saves)
  /\ saves[i].promise = "pending"
  /\ saves[i].run = "idle"
  /\ PredecessorSettled(i)
  /\ saves' = IF ChainHandler(Predecessor(i)) = "runSave"
                THEN [saves EXCEPT ![i].run = "mkdir"]
                ELSE [saves EXCEPT ![i].promise = Predecessor(i)]
  /\ UNCHANGED <<stateVars, lastModified, disk, lastOp, uiVars>>

\* createDirectory settles (a rejection is caught); runSave stamps
\* lastModified, serializes the state and calls writeFile.
MkdirSettles(i) ==
  /\ i \in 1..Len(saves)
  /\ saves[i].run = "mkdir"
  /\ lastModified' = lastModified + 1
  /\ saves' = [saves EXCEPT ![i].run = "write", ![i].doc = StateDoc(lastModified')]
  /\ UNCHANGED <<stateVars, disk, lastOp, uiVars>>

WriteFileResolves(i) ==
  /\ i \in 1..Len(saves)
  /\ saves[i].run = "write"
  /\ saves' = [saves EXCEPT ![i].run = "done", ![i].promise = RunSaveOutcome(TRUE)]
  /\ disk' = <<"doc", saves[i].doc>>
  /\ UNCHANGED <<stateVars, lastModified, lastOp, uiVars>>

\* A failed write leaves the old file, or a damaged one.
WriteFileRejects(i) ==
  /\ i \in 1..Len(saves)
  /\ saves[i].run = "write"
  /\ saves' = [saves EXCEPT ![i].run = "failed", ![i].promise = RunSaveOutcome(FALSE)]
  /\ disk' \in {disk, <<"damaged">>}
  /\ UNCHANGED <<stateVars, lastModified, lastOp, uiVars>>

SaveStep ==
  \/ Save
  \/ \E i \in 1..MaxSaves : ChainReact(i)
  \/ \E i \in 1..MaxSaves : MkdirSettles(i)
  \/ \E i \in 1..MaxSaves : WriteFileResolves(i)
  \/ \E i \in 1..MaxSaves : WriteFileRejects(i)

\* Mutations between the saves.
NextSave ==
  \/ SaveStep
  \/ AddScopePath(SrcDir)
  \/ RemoveScopePath(SrcDir)
  \/ AddExcludedPath(FileA)
  \/ RemoveExcludedPath(FileA)

SpecSave == Init /\ [][NextSave]_vars

\* The event loop runs every reaction that is ready, and every createDirectory
\* and writeFile call settles.
LiveSpecSave ==
  /\ SpecSave
  /\ \A i \in 1..MaxSaves :
       /\ WF_vars(ChainReact(i))
       /\ WF_vars(MkdirSettles(i))
       /\ WF_vars(WriteFileResolves(i) \/ WriteFileRejects(i))

----------------------------------------------------------------------------
(* Properties of the save queue (SpecSave, LiveSpecSave).                  *)

\* runSave of save number i is between its invocation and the end of its write.
InProgress(i) == saves[i].run \in {"mkdir", "write"}

WriteEnded(i) == saves[i].run \in {"done", "failed"}

\* C1: at most one runSave is in progress at any time, and the runSave of a
\* save starts only after the write of the save issued just before it has
\* resolved or rejected.
C1_OneWriteAtATime ==
  /\ Cardinality({i \in 1..Len(saves) : InProgress(i)}) <= 1
  /\ \A k \in 1..(Len(saves) - 1) : saves[k + 1].run # "idle" => WriteEnded(k)

C1_Witness ==
  /\ Len(saves) = 3
  /\ WriteEnded(1)
  /\ saves[2].run = "write"
  /\ saves[3].run = "idle"
  /\ saves[3].promise = "pending"

\* C2: writes happen in the order of the save() calls: whenever the write of
\* a save has begun, the write of every save issued before it is over, and the
\* stamps of the serialized documents increase with the call order.
C2_WritesInCallOrder ==
  \A i, j \in 1..Len(saves) :
    i < j =>
      /\ saves[j].run # "idle" => WriteEnded(i)
      /\ (saves[i].doc # <<>> /\ saves[j].doc # <<>>) =>
           saves[i].doc.lastModified < saves[j].doc.lastModified

C2_Witness ==
  /\ Len(saves) = 3
  /\ saves[1].run = "done"
  /\ saves[2].run = "failed"
  /\ saves[3].run = "done"

\* C3: a rejected write does not stall the queue: every save() that was
\* issued eventually runs its write, whatever the outcome of the write before.
C3_FailedWriteDoesNotStall ==
  \A i \in 1..MaxSaves :
    (Len(saves) >= i) ~> (Len(saves) >= i /\ saves[i].run \in {"write", "done", "failed"})

C3_Witness ==
  /\ Len(saves) >= 2
  /\ saves[1].run = "failed"
  /\ saves[1].promise = "rejected"
  /\ saves[2].run = "done"

\* C4: the promise returned by a save rejects exactly when the write of that
\* save failed, and the step on which a promise rejects leaves scope paths,
\* excluded paths, filters, files and progress history as they were.
C4_FailureReportedNoRollback ==
  /\ [](\A i \in 1..Len(saves) :
          saves[i].promise = "rejected" <=> saves[i].run = "failed")
  /\ [][(\E i \in 1..Len(saves) :
           saves[i].promise # "rejected" /\ saves'[i].promise = "rejected")
        => stateVars' = stateVars]_vars

C4_Witness ==
  /\ Len(saves) = 3
  /\ saves[2].promise = "rejected"
  /\ saves[2].run = "failed"
  /\ saves[1].promise = "fulfilled"
  /\ saves[3].promise = "fulfilled"
  /\ scopePaths = <<SrcDir>>
  /\ saves[2].doc.scopePaths = <<SrcDir>>


----------------------------------------------------------------------------
(* Commands of the extension on scope: each handler with the StateManager  *)
(* calls it makes and its closing save().                                   *)

\* stateManager.save() as called by a command handler: one more link on the
\* chain.  The queue records the first MaxSaves calls of a run.
SaveCalled(queue) ==
  IF Len(queue) < MaxSaves
    THEN Append(queue, [promise |-> "pending", run |-> "idle", doc |-> <<>>])
    ELSE queue

\* The handler before 0.4.0: the scope entry of the file is left in place.
ScopeAfterRemoveFile_kept(scope, filePath) == scope

\* if (getScopePaths().includes(filePath)) removeScopePath(filePath)
ScopeAfterRemoveFile(scope, filePath) ==
  IF Includes(scope, filePath) THEN Without(scope, filePath) ELSE scope

\* removeFromScope on a file (a FileTreeItem, or a Uri whose stat is a file).
\* lastOp keeps the scope list (prev) and the tracked files (keys) of before.
RemoveFromScopeFile(filePath) ==
  LET scope1 == ScopeAfterRemoveFile(scopePaths, filePath)
      files1 == IF Includes(scopePaths, filePath)
                  THEN KeepInScope(files, scope1, excludedPaths)
                  ELSE files
  IN /\ scopePaths' = scope1
     /\ excludedPaths' = IF ~Includes(excludedPaths, filePath)
                           THEN Append(excludedPaths, filePath)
                           ELSE excludedPaths
     /\ files' = [key \in DOMAIN files1 \ {filePath} |-> files1[key]]
     /\ saves' = SaveCalled(saves)
     /\ lastOp' = [Op("removeFromScopeFile", filePath, <<>>)
                     EXCEPT !.prev = scopePaths, !.keys = DOMAIN files]
     /\ UNCHANGED <<functionFilters, progressHistory, lastModified, disk, uiVars>>

\* The files of the workspace at or below a path.
FilesUnder(filePath) ==
  {f \in FilePaths : f = filePath \/ StartsWith(f, filePath \o <<Sep>>)}

\* setFileFunctions for each of a set of files, with the symbols extracted
\* from it.
TrackFiles(fs, paths) ==
  [key \in DOMAIN fs \cup paths |->
     IF key \in paths
       THEN ScopedFile(key,
              IF key \in DOMAIN fs
                THEN MergeFunctions(fs[key].functions, ExtractSymbols(key, ScopeSymbols))
                ELSE ExtractSymbols(key, ScopeSymbols))
       ELSE fs[key]]

\* ScopeManager.addToScope: re-adding a path removes its exclusion, the path
\* becomes a scope entry, and the files below it that are in scope are tracked.
ScopeManagerAddToScope(filePath) ==
  /\ Len(scopePaths) < MaxScopePaths \/ Includes(scopePaths, filePath)
  /\ excludedPaths' = Without(excludedPaths, filePath)
  /\ scopePaths' = IF ~Includes(scopePaths, filePath)
                     THEN Append(scopePaths, filePath)
                     ELSE scopePaths
  /\ files' = TrackFiles(files, {f \in FilesUnder(filePath) :
                                   PathInScope(scopePaths', excludedPaths', f)})

\* addToScope on a local path inside the workspace.
AddToScope(filePath) ==
  /\ ScopeManagerAddToScope(filePath)
  /\ saves' = SaveCalled(saves)
  /\ lastOp' = Op("addToScope", filePath, <<>>)
  /\ UNCHANGED <<functionFilters, progressHistory, lastModified, disk, uiVars>>

\* ScopeManager.removeFromScope on a folder: its scope entry goes, and with it
\* the files that are no longer in scope.
ScopeManagerRemoveFromScope(folderPath) ==
  /\ scopePaths' = Without(scopePaths, folderPath)
  /\ files' = KeepInScope(files, scopePaths', excludedPaths)

\* removeFromScope on a Uri whose stat is a directory.
RemoveFromScopeDirectory(folderPath) ==
  /\ ScopeManagerRemoveFromScope(folderPath)
  /\ saves' = SaveCalled(saves)
  /\ lastOp' = Op("removeFromScopeDirectory", folderPath, <<>>)
  /\ UNCHANGED <<excludedPaths, functionFilters, progressHistory, lastModified, disk, uiVars>>

FolderPaths == {RepoDir, SrcDir}

NextScopeCommands ==
  \/ \E p \in Paths : AddToScope(p)
  \/ \E p \in FilePaths : RemoveFromScopeFile(p)
  \/ \E p \in FolderPaths : RemoveFromScopeDirectory(p)

SpecScopeCommands == Init /\ [][NextScopeCommands]_vars

----------------------------------------------------------------------------
(* AuditTreeProvider: the filter predicate and the items of the panel.     *)

FunctionStatuses == {"unread", "read", "reviewed"}

FunctionTags == {"entrypoint", "admin"}

\* The status computed at the head of matchesFunctionFilters.
FunctionStatus(func) ==
  IF func.isReviewed THEN "reviewed"
  ELSE IF func.readCount > 0 THEN "read"
  ELSE "unread"

\* The two groups joined by OR.
MatchesFunctionFilters_eitherGroup(func, filters) ==
  LET statusMatches ==
        Len(filters.statuses) = 0 \/ Includes(filters.statuses, FunctionStatus(func))
      tagMatches ==
        \/ Len(filters.tags) = 0
        \/ Includes(filters.tags, "entrypoint") /\ func.isEntrypoint
        \/ Includes(filters.tags, "admin") /\ Truthy(func.isAdmin)
  IN statusMatches \/ tagMatches

\* matchesFunctionFilters; its result as a condition (undefined counts as false).
MatchesFunctionFilters(func, filters) ==
  LET statusMatches ==
        Len(filters.statuses) = 0 \/ Includes(filters.statuses, FunctionStatus(func))
      tagMatches ==
        \/ Len(filters.tags) = 0
        \/ Includes(filters.tags, "entrypoint") /\ func.isEntrypoint
        \/ Includes(filters.tags, "admin") /\ Truthy(func.isAdmin)
  IN statusMatches /\ tagMatches

\* getPriority of the sort in getChildren.
GetPriority(f) ==
  IF f.isReviewed THEN 2 ELSE IF f.readCount > 0 THEN 1 ELSE 0

\* The comparator of getChildren is negative: a sorts before b.
SortsBefore(a, b) ==
  \/ GetPriority(a) < GetPriority(b)
  \/ GetPriority(a) = GetPriority(b) /\ a.startLine < b.startLine

\* Array.prototype.sort is stable: x goes behind everything it does not sort before.
InsertSorted(sorted, x) ==
  LET k == Cardinality({i \in 1..Len(sorted) : ~SortsBefore(x, sorted[i])})
  IN SubSeq(sorted, 1, k) \o <<x>> \o SubSeq(sorted, k + 1, Len(sorted))

RECURSIVE SortFunctions(_)
SortFunctions(functions) ==
  IF functions = <<>> THEN <<>>
  ELSE InsertSorted(SortFunctions(SubSeq(functions, 1, Len(functions) - 1)),
                    functions[Len(functions)])

\* The hidden test left out of the filter.
VisibleFunctions_hiddenShown(functions, filters) ==
  SelectSeq(functions, LAMBDA f : MatchesFunctionFilters(f, filters))

\* element.scopedFile.functions.filter(...) of getChildren.
VisibleFunctions(functions, filters) ==
  SelectSeq(functions, LAMBDA f : ~f.isHidden /\ MatchesFunctionFilters(f, filters))

\* getChildren(element) for a FileTreeItem: the functions behind its items.
GetChildren(scopedFile, filters) ==
  SortFunctions(VisibleFunctions(scopedFile.functions, filters))

\* The path of a file below the workspace folder, as shown in the panel.
RelativePath(filePath) == SubSeq(filePath, Len(RepoDir) + 2, Len(filePath))

\* localeCompare on the characters of the paths of the model.
CharRank(c) ==
  CASE c = "/" -> 0
    [] c = "2" -> 1
    [] c = "a" -> 2
    [] c = "b" -> 3
    [] c = "r" -> 4
    [] OTHER -> 5

RECURSIVE ComparesBefore(_, _)
ComparesBefore(a, b) ==
  IF a = <<>> THEN b # <<>>
  ELSE IF b = <<>> THEN FALSE
  ELSE IF CharRank(Head(a)) # CharRank(Head(b))
    THEN CharRank(Head(a)) < CharRank(Head(b))
  ELSE ComparesBefore(Tail(a), Tail(b))

\* hasMatchingFunctions of getFileItems.
HasMatchingFunctions(file, filters) ==
  \E i \in 1..Len(file.functions) :
     ~file.functions[i].isHidden /\ MatchesFunctionFilters(file.functions[i], filters)

RECURSIVE SortByRelativePath(_)
SortByRelativePath(keys) ==
  IF keys = {} THEN <<>>
  ELSE LET first == CHOOSE k \in keys :
                      \A other \in keys \ {k} :
                         ~ComparesBefore(RelativePath(other), RelativePath(k))
       IN <<first>> \o SortByRelativePath(keys \ {first})

\* getFileItems: the file paths behind the items of the root level.
GetFileItems(fs, filters) ==
  SortByRelativePath({key \in DOMAIN fs : HasMatchingFunctions(fs[key], filters)})

\* The functionState of every FunctionTreeItem the panel can show.
FunctionTreeItems ==
  UNION {Range(GetChildren(files[key], functionFilters)) :
           key \in Range(GetFileItems(files, functionFilters))}

\* The scopedFile.filePath of every FileTreeItem the panel shows.
FileTreeItems == Range(GetFileItems(files, functionFilters))

----------------------------------------------------------------------------
(* StateManager: the filter settings, clearAllState and load.              *)

\* [...new Set(values)]: the first occurrence of each value, in order.
RECURSIVE Unique(_)
Unique(values) ==
  IF values = <<>> THEN <<>>
  ELSE LET front == Unique(SubSeq(values, 1, Len(values) - 1))
           last == values[Len(values)]
       IN IF Includes(front, last) THEN front ELSE Append(front, last)

IsFunctionStatus(value) == value \in FunctionStatuses

IsFunctionTag(value) == value \in FunctionTags

\* An empty status list is stored as it is.
StatusesOrDefault_emptyKept(statuses) == statuses

\* statuses.length > 0 ? statuses : [...DEFAULT_FUNCTION_FILTERS.statuses]
StatusesOrDefault(statuses) ==
  IF Len(statuses) > 0 THEN statuses ELSE DefaultFunctionFilters.statuses

\* The filters setFunctionFilters stores for the filters it is given.
StoredFilters(filters) ==
  LET statuses == SelectSeq(Unique(filters.statuses), IsFunctionStatus)
      tags == SelectSeq(Unique(filters.tags), IsFunctionTag)
  IN [statuses |-> StatusesOrDefault(statuses), tags |-> tags]

\* setFunctionFilters: lastOp keeps the statuses (fns) and tags (prev) passed.
SetFunctionFilters(filters) ==
  /\ functionFilters' = StoredFilters(filters)
  /\ lastOp' = [Op("setFunctionFilters", <<>>, filters.statuses)
                  EXCEPT !.prev = filters.tags]
  /\ UNCHANGED <<scopePaths, excludedPaths, files, progressHistory, saveVars, uiVars>>

ClearFunctionFilters ==
  /\ functionFilters' = [statuses |-> DefaultFunctionFilters.statuses, tags |-> <<>>]
  /\ lastOp' = Op("clearFunctionFilters", <<>>, <<>>)
  /\ UNCHANGED <<scopePaths, excludedPaths, files, progressHistory, saveVars, uiVars>>

\* STATE_VERSION
StateVersion == 1

\* In memory, version and lastModified are numbers that may be infinite:
\* they keep their tagged form.
FiniteNumber(n) == <<"number", n>>

\* One default object behind every default state: the lists that the state
\* methods have pushed to since are the lists of the next default state.
CreateDefaultState_shared ==
  [scopePaths |-> scopePaths,
   excludedPaths |-> excludedPaths,
   functionFilters |-> [statuses |-> DefaultFunctionFilters.statuses, tags |-> <<>>],
   files |-> NoFiles,
   progressHistory |-> progressHistory,
   lastModified |-> FiniteNumber(lastModified),
   version |-> FiniteNumber(StateVersion)]

\* createDefaultState; Date.now() reads the clock that the saves stamp.
CreateDefaultState ==
  [scopePaths |-> <<>>,
   excludedPaths |-> <<>>,
   functionFilters |-> [statuses |-> DefaultFunctionFilters.statuses, tags |-> <<>>],
   files |-> NoFiles,
   progressHistory |-> <<>>,
   lastModified |-> FiniteNumber(lastModified),
   version |-> FiniteNumber(StateVersion)]

\* clearAllState: this.state = createDefaultState().  lastOp keeps the scope
\* paths (prev) and the tracked files (keys) of the state that is dropped.
ClearAllState ==
  /\ scopePaths' = CreateDefaultState.scopePaths
  /\ excludedPaths' = CreateDefaultState.excludedPaths
  /\ functionFilters' = CreateDefaultState.functionFilters
  /\ files' = CreateDefaultState.files
  /\ progressHistory' = CreateDefaultState.progressHistory
  /\ lastOp' = [Op("clearAllState", <<>>, <<>>)
                  EXCEPT !.prev = scopePaths, !.keys = DOMAIN files]
  /\ UNCHANGED <<saveVars, uiVars>>

\* JSON values of a state file.  An array element is a string or a number.
JsonString(s) == [value |-> s, type |-> "string"]

JsonNumber == [value |-> "1", type |-> "number"]

\* A member that should be an array: <<"array", elements>>, or <<"other">>
\* for anything Array.isArray rejects (a missing member too).
RawStatuses ==
  {<<"other">>} \cup
  {<<"array", a>> : a \in {<<>>,
                           <<JsonString("read")>>,
                           <<JsonString("bogus")>>,
                           <<JsonString("unread"), JsonString("read")>>,
                           <<JsonNumber, JsonString("reviewed"), JsonString("reviewed")>>,
                           <<JsonString("admin"), JsonNumber>>}}

RawTags ==
  {<<"other">>} \cup
  {<<"array", a>> : a \in {<<>>,
                           <<JsonString("admin")>>,
                           <<JsonString("admin"), JsonString("entrypoint"),
                             JsonString("admin")>>,
                           <<JsonString("read"), JsonNumber>>}}

\* The functionFilters member: an object, null, or a value without members.
RawFilters ==
  {<<"null">>, <<"other">>} \cup
  {<<"object", s, t>> : s \in RawStatuses, t \in RawTags}

\* The parsed state files of the model: with a functionFilters member, or
\* with no member at all.
RawDocuments ==
  {[functionFilters |-> rf] : rf \in RawFilters} \cup {[version |-> <<"number", 1>>]}

\* .filter((s): s is string => typeof s === "string"), as plain strings.
StringsOf(elements) ==
  LET strings == SelectSeq(elements, LAMBDA e : e.type = "string")
  IN [i \in 1..Len(strings) |-> strings[i].value]

\* Array.isArray(x) ? x.filter(typeof string) : [], before the test of validity.
ArrayStrings(raw) ==
  IF raw[1] = "array" THEN StringsOf(raw[2]) ELSE <<>>

\* normalizeState, the functionFilters part, over
\* { ...createDefaultState(), ...parsed }.functionFilters: the strings of each
\* array filtered by validity, then made unique.
NormalizeFilters(rawFilters) ==
  LET statuses == IF rawFilters[1] = "object"
                    THEN Unique(SelectSeq(ArrayStrings(rawFilters[2]), IsFunctionStatus))
                    ELSE <<>>
      tags == IF rawFilters[1] = "object"
                THEN Unique(SelectSeq(ArrayStrings(rawFilters[3]), IsFunctionTag))
                ELSE <<>>
  IN [statuses |-> StatusesOrDefault(statuses), tags |-> tags]

\* The default filters as the member the spread leaves when parsed has none.
DefaultRawFilters ==
  <<"object",
    <<"array", [i \in 1..Len(DefaultFunctionFilters.statuses) |->
                  JsonString(DefaultFunctionFilters.statuses[i])]>>,
    <<"array", <<>>>>>>

\* The other members of a state file, as tagged JSON values: <<"number", n>>
\* a finite number, <<"infinity">> a number literal beyond the double range
\* (1e999 parses to Infinity), <<"string", s>>, <<"bool", b>>, <<"null">>,
\* <<"array", elements>>, <<"object", members>>, and <<"missing">> for a
\* member its object does not have.
IsNumber(v) == v[1] \in {"number", "infinity"}

\* typeof v === "number" && Number.isFinite(v)
IsFiniteNumber(v) == v[1] = "number"

IsString(v) == v[1] = "string"

\* Boolean(v), for the values the flags of the model's documents take.
ToBoolean(v) ==
  CASE v[1] = "bool" -> v[2]
    [] v[1] = "number" -> v[2] # 0
    [] v[1] = "infinity" -> TRUE
    [] v[1] = "object" -> TRUE
    [] v[1] \in {"null", "missing"} -> FALSE

\* The default state as the members the spread takes when parsed lacks them.
RawDefaultState ==
  [scopePaths |-> <<"array", <<>>>>,
   excludedPaths |-> <<"array", <<>>>>,
   functionFilters |-> DefaultRawFilters,
   files |-> <<"object", <<>>>>,
   progressHistory |-> <<"array", <<>>>>,
   lastModified |-> CreateDefaultState.lastModified,
   version |-> CreateDefaultState.version]

\* { ...createDefaultState(), ...parsed }
SpreadOverDefaults(parsed) ==
  [member \in DOMAIN RawDefaultState |->
     IF member \in DOMAIN parsed THEN parsed[member] ELSE RawDefaultState[member]]

\* Keeps the empty strings among the paths.
NormalizePaths_emptyKept(raw) ==
  LET IsPath(p) == IsString(p)
      paths == IF raw[1] = "array" THEN SelectSeq(raw[2], IsPath) ELSE <<>>
  IN Unique([i \in 1..Len(paths) |-> paths[i][2]])

\* unique(Array.isArray(x) ? x.filter(typeof p === "string" && p.length > 0) : [])
NormalizePaths(raw) ==
  LET IsPath(p) == IsString(p) /\ Len(p[2]) > 0
      paths == IF raw[1] = "array" THEN SelectSeq(raw[2], IsPath) ELSE <<>>
  IN Unique([i \in 1..Len(paths) |-> paths[i][2]])

UnknownName == "unknown"

\* The end line as persisted, not clamped.
ClampedEndLine_asPersisted(endLine, startLine) == endLine

\* Math.max(endLine, startLine)
ClampedEndLine(endLine, startLine) ==
  IF endLine >= startLine THEN endLine ELSE startLine

\* typeof fn.readCount === "number" && fn.readCount > 0 ? 1 : 0
NormalizedReadCount(readCount) ==
  IF IsNumber(readCount) /\ (readCount[1] = "infinity" \/ readCount[2] > 0)
    THEN 1 ELSE 0

\* The function record normalizeState builds from a persisted one.
NormalizeFunction(filePath, fn) ==
  LET startLine == IF IsFiniteNumber(fn.startLine) THEN fn.startLine[2] ELSE 0
      endLine == IF IsFiniteNumber(fn.endLine) THEN fn.endLine[2] ELSE startLine
      name == IF IsString(fn.name) THEN fn.name[2] ELSE UnknownName
      id == IF IsString(fn.id) /\ fn.id[2] # <<>>
              THEN fn.id[2]
              ELSE FunctionId(filePath, name, startLine)
  IN [filePath |-> filePath,
      name |-> name,
      startLine |-> startLine,
      endLine |-> ClampedEndLine(endLine, startLine),
      id |-> id,
      readCount |-> NormalizedReadCount(fn.readCount),
      isReviewed |-> ToBoolean(fn.isReviewed),
      isEntrypoint |-> ToBoolean(fn.isEntrypoint),
      isAdmin |-> JsBool(ToBoolean(fn.isAdmin)),
      isHidden |-> ToBoolean(fn.isHidden)]

\* Array.isArray(file.functions) ? filter(Boolean(fn) && object).map(...) : []
NormalizeFunctions(filePath, raw) ==
  LET IsObject(fn) == fn[1] = "object"
      objects == IF raw[1] = "array" THEN SelectSeq(raw[2], IsObject) ELSE <<>>
  IN [i \in 1..Len(objects) |-> NormalizeFunction(filePath, objects[i][2])]

\* The files member: <<"object", entries>> with the entries <<key, file>> in
\* the order of Object.entries, a file being <<"object", functions>> or a
\* value that is no object.  The stored file carries relativePath too, which
\* ScopedFile leaves out.
NormalizeFiles(raw) ==
  LET IsFile(entry) == entry[2][1] = "object"
      entries == IF raw[1] = "object" THEN SelectSeq(raw[2], IsFile) ELSE <<>>
      Entry(filePath) ==
        entries[CHOOSE i \in 1..Len(entries) : entries[i][1] = filePath]
  IN [filePath \in {entries[i][1] : i \in 1..Len(entries)} |->
        ScopedFile(filePath, NormalizeFunctions(filePath, Entry(filePath)[2][2]))]

\* typeof entry.date === "string" ? entry.date : "unknown"; the days of the
\* model are numbers, and "unknown" is the day 0.
UnknownDate == 0

UnknownPath == <<"u", "n", "k", "n", "o", "w", "n">>

ActionTypes == {"functionRead", "functionReviewed", "fileRead", "fileReviewed"}

\* Keeps every action that is an object, whatever its type.
IsKnownAction_any(action) == action[1] = "object"

\* Boolean(a) && typeof a === "object", and a.type one of the four types.
IsKnownAction(action) ==
  /\ action[1] = "object"
  /\ IsString(action[2].type)
  /\ action[2].type[2] \in ActionTypes

\* The action normalizeState builds; a member that is undefined is a member
\* the record does not have (JSON.stringify writes none).
NormalizeAction(a) ==
  LET type == IF IsString(a.type) THEN a.type[2] ELSE UnknownName
      filePath == IF IsString(a.filePath) THEN a.filePath[2] ELSE UnknownPath
  IN IF IsString(a.functionName)
       THEN IF IsFiniteNumber(a.lineCount)
              THEN [filePath |-> filePath, type |-> type,
                    functionName |-> a.functionName[2],
                    lineCount |-> a.lineCount[2]]
              ELSE [filePath |-> filePath, type |-> type,
                    functionName |-> a.functionName[2]]
       ELSE IF IsFiniteNumber(a.lineCount)
              THEN [filePath |-> filePath, type |-> type,
                    lineCount |-> a.lineCount[2]]
              ELSE [filePath |-> filePath, type |-> type]

NormalizeActions(raw) ==
  LET actions == IF raw[1] = "array" THEN SelectSeq(raw[2], IsKnownAction) ELSE <<>>
  IN [i \in 1..Len(actions) |-> NormalizeAction(actions[i][2])]

\* typeof n === "number" && Number.isFinite(n) ? n : 0
NormalizeCounter(raw) == IF IsFiniteNumber(raw) THEN raw[2] ELSE 0

NormalizeEntry(entry) ==
  [actions |-> NormalizeActions(entry.actions),
   date |-> IF IsString(entry.date) THEN entry.date[2] ELSE UnknownDate,
   functionsRead |-> NormalizeCounter(entry.functionsRead),
   functionsReviewed |-> NormalizeCounter(entry.functionsReviewed),
   linesRead |-> NormalizeCounter(entry.linesRead),
   linesReviewed |-> NormalizeCounter(entry.linesReviewed),
   filesRead |-> NormalizeCounter(entry.filesRead),
   filesReviewed |-> NormalizeCounter(entry.filesReviewed)]

\* Array.isArray(state.progressHistory) ? filter(object).map(...) : []
NormalizeProgressHistory(raw) ==
  LET IsObject(entry) == entry[1] = "object"
      entries == IF raw[1] = "array" THEN SelectSeq(raw[2], IsObject) ELSE <<>>
  IN [i \in 1..Len(entries) |-> NormalizeEntry(entries[i][2])]

\* normalizeState
NormalizeState(state) ==
  [scopePaths |-> NormalizePaths(state.scopePaths),
   excludedPaths |-> NormalizePaths(state.excludedPaths),
   functionFilters |-> NormalizeFilters(state.functionFilters),
   files |-> NormalizeFiles(state.files),
   progressHistory |-> NormalizeProgressHistory(state.progressHistory),
   lastModified |-> IF IsNumber(state.lastModified)
                      THEN state.lastModified
                      ELSE FiniteNumber(lastModified),
   version |-> IF IsNumber(state.version)
                 THEN state.version
                 ELSE FiniteNumber(StateVersion)]

\* A parser that reads what it can of a state file that is cut short.
ParsedStateFile_lenient(file) ==
  IF file[1] \in {"doc", "damaged"} /\ Len(file) = 2
    THEN <<"value", file[2]>>
    ELSE <<"throws">>

\* readFile and JSON.parse: the parsed document, or an exception when there
\* is no readable file or its text is no JSON document.  A damaged file is
\* <<"damaged">>, or <<"damaged", d>> when its text is the document d cut
\* short.
ParsedStateFile(file) ==
  IF file[1] = "doc" THEN <<"value", file[2]>> ELSE <<"throws">>

\* The body of load: try { normalizeState(spread) } catch { default }.
LoadedState(file) ==
  IF ParsedStateFile(file)[1] = "value"
    THEN NormalizeState(SpreadOverDefaults(ParsedStateFile(file)[2]))
    ELSE CreateDefaultState

\* lastOp of load: the state that load built, with its version and
\* lastModified, which the variables of the model do not hold.
LoadOp(loaded) ==
  [op |-> "load", path |-> <<>>, fns |-> <<>>, prev |-> <<>>, keys |-> {},
   state |-> loaded]

\* load: the state file parsed, merged over the defaults and normalized;
\* without a readable file, or when parsing throws, the default state.
Load ==
  /\ lastOp = NoOp
  /\ scopePaths' = LoadedState(disk).scopePaths
  /\ excludedPaths' = LoadedState(disk).excludedPaths
  /\ functionFilters' = LoadedState(disk).functionFilters
  /\ files' = LoadedState(disk).files
  /\ progressHistory' = LoadedState(disk).progressHistory
  /\ lastOp' = LoadOp(LoadedState(disk))
  /\ UNCHANGED <<saveVars, uiVars>>

\* The state after construction, with whatever state file the workspace holds.
InitWithStateFile ==
  /\ scopePaths = <<>>
  /\ excludedPaths = <<>>
  /\ functionFilters = DefaultFunctionFilters
  /\ files = NoFiles
  /\ progressHistory = <<>>
  /\ lastModified = 0
  /\ saves = <<>>
  /\ disk \in {<<"none">>, <<"damaged">>} \cup {<<"doc", d>> : d \in RawDocuments}
  /\ lastOp = NoOp
  /\ inFlight = {}
  /\ staleItems = {}

\* The selections passed to setFunctionFilters.
StatusSelections ==
  {<<>>, <<"read">>, <<"reviewed", "unread">>, <<"read", "read">>, <<"bogus">>,
   <<"admin", "reviewed">>, <<"unread", "read", "reviewed", "read">>}

TagSelections ==
  {<<>>, <<"admin">>, <<"entrypoint", "admin">>, <<"admin", "admin">>,
   <<"read">>, <<"bogus", "entrypoint">>}

NextFilters ==
  \/ Load
  \/ \E s \in StatusSelections, t \in TagSelections :
        SetFunctionFilters([statuses |-> s, tags |-> t])
  \/ ClearFunctionFilters
  \/ ClearAllState

SpecFilters == InitWithStateFile /\ [][NextFilters]_vars


----------------------------------------------------------------------------
(* The progress tracker of StateManager.                                   *)

\* new Date().toISOString().split("T")[0]: the calendar day the clock shows,
\* as the number of the day.  Two days: a day and the day after.
Days == {1, 2}

\* The entry getOrCreateTodayProgress pushes.
NewDailyProgress(today) ==
  [actions |-> <<>>, date |-> today, functionsRead |-> 0,
   functionsReviewed |-> 0, linesRead |-> 0, linesReviewed |-> 0, filesRead |-> 0,
   filesReviewed |-> 0]

\* progressHistory.find((p) => p.date === today): the index of the first
\* entry of the day, 0 when there is none.
TodayIndex(history, today) ==
  IF \E i \in 1..Len(history) : history[i].date = today
    THEN CHOOSE i \in 1..Len(history) :
           /\ history[i].date = today
           /\ \A j \in 1..(i - 1) : history[j].date # today
    ELSE 0

\* Always pushes a new entry.
GetOrCreateTodayProgress_alwaysNew(history, today) ==
  Append(history, NewDailyProgress(today))

\* getOrCreateTodayProgress: the history with an entry for today in it.
GetOrCreateTodayProgress(history, today) ==
  IF TodayIndex(history, today) # 0
    THEN history
    ELSE Append(history, NewDailyProgress(today))

\* The index of the entry getOrCreateTodayProgress returns.
ProgressIndex(history, today) ==
  IF TodayIndex(history, today) # 0 THEN TodayIndex(history, today)
  ELSE Len(history) + 1

RecordFunctionRead(history, today, filePath, functionName, lineCount) ==
  [GetOrCreateTodayProgress(history, today)
     EXCEPT ![ProgressIndex(history, today)] =
       [@ EXCEPT !.functionsRead = @ + 1,
                 !.linesRead = @ + lineCount,
                 !.actions = Append(@, [filePath |-> filePath,
                                        type |-> "functionRead",
                                        functionName |-> functionName,
                                        lineCount |-> lineCount])]]

RecordFunctionReviewed(history, today, filePath, functionName, lineCount) ==
  [GetOrCreateTodayProgress(history, today)
     EXCEPT ![ProgressIndex(history, today)] =
       [@ EXCEPT !.functionsReviewed = @ + 1,
                 !.linesReviewed = @ + lineCount,
                 !.actions = Append(@, [filePath |-> filePath,
                                        type |-> "functionReviewed",
                                        functionName |-> functionName,
                                        lineCount |-> lineCount])]]

RecordFileRead(history, today, filePath) ==
  [GetOrCreateTodayProgress(history, today)
     EXCEPT ![ProgressIndex(history, today)] =
       [@ EXCEPT !.filesRead = @ + 1,
                 !.actions = Append(@, [filePath |-> filePath,
                                        type |-> "fileRead"])]]

RecordFileReviewed(history, today, filePath) ==
  [GetOrCreateTodayProgress(history, today)
     EXCEPT ![ProgressIndex(history, today)] =
       [@ EXCEPT !.filesReviewed = @ + 1,
                 !.actions = Append(@, [filePath |-> filePath,
                                        type |-> "fileReviewed"])]]

----------------------------------------------------------------------------
(* Commands of the extension on the functions of the panel.                *)

\* The most progress actions the history of the model holds.
MaxActions == 4

RECURSIVE ActionCount(_)
ActionCount(history) ==
  IF history = <<>> THEN 0
  ELSE Len(Head(history).actions) + ActionCount(Tail(history))

\* The clock does not run backwards: today is no earlier than any entry.
ClockShows(today) ==
  \A i \in 1..Len(progressHistory) : progressHistory[i].date <= today

\* func.endLine - func.startLine + 1
LineCount(func) == func.endLine - func.startLine + 1

\* Every function of the file counts, hidden or not.
NonHidden_all(functions) == functions

\* file.functions.filter((f) => !f.isHidden)
NonHidden(functions) == SelectSeq(functions, LAMBDA f : ~f.isHidden)

\* allRead: visibleFunctions.length > 0 && visibleFunctions.every(readCount > 0)
AllRead(functions) ==
  LET visibleFunctions == NonHidden(functions)
  IN /\ Len(visibleFunctions) > 0
     /\ \A i \in 1..Len(visibleFunctions) : visibleFunctions[i].readCount > 0

\* allReviewed: visibleFunctions.length > 0 && visibleFunctions.every(isReviewed)
AllReviewed(functions) ==
  LET visibleFunctions == NonHidden(functions)
  IN /\ Len(visibleFunctions) > 0
     /\ \A i \in 1..Len(visibleFunctions) : visibleFunctions[i].isReviewed

\* What lastOp keeps of a command on a function: the command, the file, the
\* id of the function and the status it had before (prev); markRead and
\* markReviewed add the day the clock showed (keys).
FunctionOp(name, func) ==
  [Op(name, func.filePath, <<func.id>>) EXCEPT !.prev = <<FunctionStatus(func)>>]

\* Progress is recorded whether or not the function was read before.
WasAlreadyRead_never(func) == FALSE

\* wasAlreadyRead
WasAlreadyRead(func) == func.readCount > 0

\* markRead on the function of a tree item.
MarkRead(func, today) ==
  /\ ClockShows(today)
  /\ SetField(func.id, "readCount", 1)
  /\ progressHistory' =
       IF WasAlreadyRead(func) THEN progressHistory
       ELSE LET relativePath == RelativePath(func.filePath)
                recorded == RecordFunctionRead(progressHistory, today, relativePath,
                                               func.name, LineCount(func))
            IN IF /\ func.filePath \in DOMAIN files'
                  /\ AllRead(files'[func.filePath].functions)
                 THEN RecordFileRead(recorded, today, relativePath)
                 ELSE recorded
  /\ ActionCount(progressHistory') <= MaxActions
  /\ saves' = SaveCalled(saves)
  /\ lastOp' = [FunctionOp("markRead", func) EXCEPT !.keys = {today}]
  /\ UNCHANGED <<scopePaths, excludedPaths, functionFilters, lastModified, disk, uiVars>>

\* unmarkRead that takes the latest entry of the log back.
UnmarkRead_undoes(func) ==
  /\ SetField(func.id, "readCount", 0)
  /\ progressHistory' = SubSeq(progressHistory, 1, Len(progressHistory) - 1)
  /\ saves' = SaveCalled(saves)
  /\ lastOp' = FunctionOp("unmarkRead", func)
  /\ UNCHANGED <<scopePaths, excludedPaths, functionFilters, lastModified, disk, uiVars>>

\* unmarkRead
UnmarkRead(func) ==
  /\ SetField(func.id, "readCount", 0)
  /\ saves' = SaveCalled(saves)
  /\ lastOp' = FunctionOp("unmarkRead", func)
  /\ UNCHANGED <<scopePaths, excludedPaths, functionFilters, progressHistory,
                 lastModified, disk, uiVars>>

\* The test for the read-before-review rule dropped.
ReviewRejected_never(func) == FALSE

\* func.readCount === 0: the warning, and the handler returns.
ReviewRejected(func) == func.readCount = 0

\* markReviewed on the function of a tree item.
MarkReviewed(func, today) ==
  /\ ClockShows(today)
  /\ IF ReviewRejected(func)
       THEN /\ lastOp' = FunctionOp("markReviewed", func)
            /\ UNCHANGED <<stateVars, saveVars, uiVars>>
       ELSE /\ SetField(func.id, "isReviewed", TRUE)
            /\ progressHistory' =
                 IF func.isReviewed THEN progressHistory
                 ELSE LET relativePath == RelativePath(func.filePath)
                          recorded == RecordFunctionReviewed(progressHistory, today,
                                        relativePath, func.name, LineCount(func))
                      IN IF /\ func.filePath \in DOMAIN files'
                            /\ AllReviewed(files'[func.filePath].functions)
                           THEN RecordFileReviewed(recorded, today, relativePath)
                           ELSE recorded
            /\ ActionCount(progressHistory') <= MaxActions
            /\ saves' = SaveCalled(saves)
            /\ lastOp' = [FunctionOp("markReviewed", func) EXCEPT !.keys = {today}]
            /\ UNCHANGED <<scopePaths, excludedPaths, functionFilters,
                           lastModified, disk, uiVars>>

\* unmarkReviewed
UnmarkReviewed(func) ==
  /\ SetField(func.id, "isReviewed", FALSE)
  /\ saves' = SaveCalled(saves)
  /\ lastOp' = FunctionOp("unmarkReviewed", func)
  /\ UNCHANGED <<scopePaths, excludedPaths, functionFilters, progressHistory,
                 lastModified, disk, uiVars>>

\* hideFunction
HideFunction(func) ==
  /\ SetField(func.id, "isHidden", TRUE)
  /\ saves' = SaveCalled(saves)
  /\ lastOp' = FunctionOp("hideFunction", func)
  /\ UNCHANGED <<scopePaths, excludedPaths, functionFilters, progressHistory,
                 lastModified, disk, uiVars>>

\* showHiddenFunctions on a file item: setHidden(func.id, false) for each
\* hidden function of the file; the ids of one file differ, so each call
\* reaches the function it is made for.
ShowHiddenFunctions(filePath) ==
  /\ files' = [files EXCEPT ![filePath].functions =
                 [i \in 1..Len(@) |-> [@[i] EXCEPT !.isHidden = FALSE]]]
  /\ saves' = SaveCalled(saves)
  /\ lastOp' = Op("showHiddenFunctions", filePath, <<>>)
  /\ UNCHANGED <<scopePaths, excludedPaths, functionFilters, progressHistory,
                 lastModified, disk, uiVars>>

\* What extraction returns for the file of this specification: the one-line
\* function f and the six-line function g.
ReviewSymbols ==
  << [name |-> "f", startLine |-> 10, kind |-> "Function", endLine |-> 10],
     [name |-> "g", startLine |-> 40, kind |-> "Function", endLine |-> 45] >>

NextReview ==
  \/ SetFileFunctions(FileA, ExtractSymbols(FileA, ReviewSymbols))
  \/ \E func \in FunctionTreeItems, today \in Days : MarkRead(func, today)
  \/ \E func \in FunctionTreeItems : UnmarkRead(func)
  \/ \E func \in FunctionTreeItems, today \in Days : MarkReviewed(func, today)
  \/ \E func \in FunctionTreeItems : UnmarkReviewed(func)
  \/ \E func \in FunctionTreeItems : HideFunction(func)
  \/ \E filePath \in FileTreeItems : ShowHiddenFunctions(filePath)

SpecReview == Init /\ [][NextReview]_vars


----------------------------------------------------------------------------
(* Claims on the review commands, under SpecReview.                        *)

\* The stored function a command was called on, before and after the command.
CommandFunction ==
  LET functions == files[lastOp'.path].functions
  IN functions[FirstIndex(functions, lastOp'.fns[1])]

CommandFunctionAfter ==
  LET functions == files'[lastOp'.path].functions
  IN functions[FirstIndex(functions, lastOp'.fns[1])]

\* The day of a markRead or markReviewed that went through.
CommandDay == CHOOSE d \in lastOp'.keys : TRUE

\* C12: markReviewed on a function with readCount = 0 is rejected: the function
\* stays as it was (unreviewed), no action is recorded, no counter changes and
\* nothing else of the state changes, no save is issued.
C12_UnreadReviewRejected ==
  [][lastOp'.op = "markReviewed" /\ CommandFunction.readCount = 0
       => /\ UNCHANGED <<stateVars, saveVars>>
          /\ CommandFunctionAfter.isReviewed = CommandFunction.isReviewed]_vars

\* markReviewed was called on an unread function after progress was recorded.
C12_Witness ==
  /\ lastOp.op = "markReviewed"
  /\ lastOp.prev = <<"unread">>
  /\ progressHistory # <<>>

\* C13: every stored function that is reviewed has readCount > 0.
C13_ReviewedImpliesRead ==
  \A key \in DOMAIN files : \A i \in 1..Len(files[key].functions) :
     files[key].functions[i].isReviewed => files[key].functions[i].readCount > 0

\* The status changes a single command may make.
StatusTransitions ==
  {<<"markRead", "unread", "read">>, <<"markReviewed", "read", "reviewed">>,
   <<"unmarkReviewed", "reviewed", "read">>, <<"unmarkRead", "read", "unread">>}

\* C14: whenever a step changes the status of a stored function, the step is
\* markRead (unread to read), markReviewed (read to reviewed), unmarkReviewed
\* (reviewed to read) or unmarkRead (read to unread).
C14_StatusTransitions ==
  [][\A key \in DOMAIN files \cap DOMAIN files' :
       \A i \in 1..Len(files[key].functions), j \in 1..Len(files'[key].functions) :
          /\ files[key].functions[i].id = files'[key].functions[j].id
          /\ FunctionStatus(files[key].functions[i])
               # FunctionStatus(files'[key].functions[j])
          => <<lastOp'.op, FunctionStatus(files[key].functions[i]),
               FunctionStatus(files'[key].functions[j])>> \in StatusTransitions]_vars

\* The progress actions of one type, in an entry and in the whole history.
CountType(actions, type) == Len(SelectSeq(actions, LAMBDA a : a.type = type))

RECURSIVE TotalCount(_, _)
TotalCount(history, type) ==
  IF history = <<>> THEN 0
  ELSE CountType(Head(history).actions, type) + TotalCount(Tail(history), type)

\* C15: markRead on a function with readCount > 0, and markReviewed on a
\* reviewed function, leave progressHistory as it was: no action, no counter.
C15_RepeatedMarkNotCounted ==
  [][\/ lastOp'.op = "markRead" /\ CommandFunction.readCount > 0
     \/ lastOp'.op = "markReviewed" /\ CommandFunction.isReviewed
     => progressHistory' = progressHistory]_vars

\* markRead was called on a function that was read already, with progress on record.
C15_Witness ==
  /\ lastOp.op = "markRead"
  /\ lastOp.prev = <<"read">>
  /\ progressHistory # <<>>

\* What one recordFunctionRead / recordFunctionReviewed call does to the
\* history, with the counters and the action type named: an entry for the day
\* is created only when there is none; that entry counts one function and
\* lineCount lines more and gains exactly one action of the type, first among
\* the actions of the step, with the file, the name and the line count; the
\* entries of other days stay.
RecordedOnce(day, type, functions, lines, func) ==
  LET before == progressHistory
      after  == progressHistory'
      k      == CHOOSE i \in 1..Len(after) : after[i].date = day
      old    == IF k <= Len(before) THEN before[k] ELSE NewDailyProgress(day)
      added  == SubSeq(after[k].actions, Len(old.actions) + 1, Len(after[k].actions))
  IN /\ Cardinality({i \in 1..Len(after) : after[i].date = day}) = 1
     /\ Len(after) = IF \E i \in 1..Len(before) : before[i].date = day
                       THEN Len(before) ELSE Len(before) + 1
     /\ \A i \in 1..Len(before) : i # k => after[i] = before[i]
     /\ k <= Len(before) => before[k].date = day
     /\ after[k][functions] = old[functions] + 1
     /\ after[k][lines] = old[lines] + (func.endLine - func.startLine + 1)
     /\ SubSeq(after[k].actions, 1, Len(old.actions)) = old.actions
     /\ added # <<>>
     /\ added[1] = [filePath |-> RelativePath(func.filePath), type |-> type,
                    functionName |-> func.name,
                    lineCount |-> func.endLine - func.startLine + 1]
     /\ CountType(added, type) = 1

\* C16: a markRead of an unread function calls recordFunctionRead with
\* n = endLine - startLine + 1, and the call does to the history what
\* RecordedOnce says (markReviewed and recordFunctionReviewed likewise); so an
\* entry counts as many functions read as it has functionRead actions, and
\* no date has two entries.
C16_FunctionProgressRecorded ==
  /\ [][/\ lastOp'.op = "markRead" /\ CommandFunction.readCount = 0
           => RecordedOnce(CommandDay, "functionRead", "functionsRead",
                           "linesRead", CommandFunction)
        /\ lastOp'.op = "markReviewed" /\ lastOp'.keys # {}
             /\ ~CommandFunction.isReviewed
           => RecordedOnce(CommandDay, "functionReviewed", "functionsReviewed",
                           "linesReviewed", CommandFunction)]_vars
  /\ [](\A i \in 1..Len(progressHistory) :
          /\ progressHistory[i].functionsRead
               = CountType(progressHistory[i].actions, "functionRead")
          /\ progressHistory[i].functionsReviewed
               = CountType(progressHistory[i].actions, "functionReviewed")
          /\ \A j \in 1..Len(progressHistory) :
               progressHistory[j].date = progressHistory[i].date => j = i)

\* Two functions were marked read on one day: one entry, functionsRead = 2,
\* seven lines, two functionRead actions.
C16_Witness ==
  /\ lastOp.op = "markRead"
  /\ Len(progressHistory) = 1
  /\ progressHistory[1].functionsRead = 2
  /\ progressHistory[1].linesRead = 7
  /\ CountType(progressHistory[1].actions, "functionRead") = 2

IsRead(f) == f.readCount > 0

IsReviewed(f) == f.isReviewed

\* The file of the command has a non-hidden function after the step, and each
\* of its non-hidden functions satisfies Done.
FileComplete(Done(_)) ==
  LET functions == files'[lastOp'.path].functions
  IN /\ \E i \in 1..Len(functions) : ~functions[i].isHidden
     /\ \A i \in 1..Len(functions) : ~functions[i].isHidden => Done(functions[i])

\* C17: a markRead that changes a function from unread to read records one
\* fileRead action if, after the change, the file has a non-hidden function
\* and all its non-hidden functions have readCount > 0, and none otherwise;
\* markReviewed, isReviewed and fileReviewed likewise.
C17_FileCompletionRecorded ==
  [][/\ lastOp'.op = "markRead" /\ CommandFunction.readCount = 0
        => TotalCount(progressHistory', "fileRead")
             = TotalCount(progressHistory, "fileRead")
               + (IF FileComplete(IsRead) THEN 1 ELSE 0)
     /\ lastOp'.op = "markReviewed" /\ lastOp'.keys # {}
          /\ ~CommandFunction.isReviewed
        => TotalCount(progressHistory', "fileReviewed")
             = TotalCount(progressHistory, "fileReviewed")
               + (IF FileComplete(IsReviewed) THEN 1 ELSE 0)]_vars

\* The last visible unread function was marked read while a hidden function
\* of the file was still unread, and fileRead was recorded.
C17_Witness ==
  /\ lastOp.op = "markRead"
  /\ lastOp.prev = <<"unread">>
  /\ \E i \in 1..Len(files[lastOp.path].functions) :
        /\ files[lastOp.path].functions[i].isHidden
        /\ files[lastOp.path].functions[i].readCount = 0
  /\ LET last == progressHistory[Len(progressHistory)]
     IN last.actions[Len(last.actions)].type = "fileRead"


----------------------------------------------------------------------------
(* The filter predicate as a function of its two arguments.                *)

\* Function records with every combination of flags.
FunctionRecords ==
  {[NewFunctionState(FileA, ReviewSymbols[1])
      EXCEPT !.readCount = readCount, !.isReviewed = isReviewed,
             !.isEntrypoint = isEntrypoint, !.isAdmin = isAdmin,
             !.isHidden = isHidden] :
     readCount \in {0, 1}, isReviewed \in BOOLEAN, isEntrypoint \in BOOLEAN,
     isAdmin \in {Undefined, "false", "true"}, isHidden \in BOOLEAN}

StatusLists ==
  {<<>>, <<"unread">>, <<"read">>, <<"reviewed">>, <<"read", "reviewed">>,
   <<"reviewed", "unread">>, <<"unread", "read", "reviewed">>}

TagLists == {<<>>, <<"entrypoint">>, <<"admin">>, <<"entrypoint", "admin">>}

\* Filter values, the empty status list among them.
FilterValues == {[statuses |-> s, tags |-> t] : s \in StatusLists, t \in TagLists}

\* One call of matchesFunctionFilters: lastOp keeps the arguments and the result.
MatchesFunctionFiltersCall(func, filters) ==
  /\ lastOp' = [op |-> "matchesFunctionFilters", func |-> func, filters |-> filters,
                result |-> MatchesFunctionFilters(func, filters)]
  /\ UNCHANGED <<stateVars, saveVars, uiVars>>

NextMatch ==
  \E func \in FunctionRecords, filters \in FilterValues :
     MatchesFunctionFiltersCall(func, filters)

SpecMatch == Init /\ [][NextMatch]_vars

\* The status of a record as the claim defines it.
StatusOf(func) ==
  CASE func.isReviewed -> "reviewed"
    [] ~func.isReviewed /\ func.readCount > 0 -> "read"
    [] OTHER -> "unread"

\* C18: matchesFunctionFilters returns true exactly when (statuses is empty or
\* holds the status of the record) and (tags is empty, or holds entrypoint and
\* the record is an entrypoint, or holds admin and the record is admin); with
\* statuses read, reviewed and tags admin, an unread admin function and a
\* reviewed function that is not admin do not match.
C18_FilterPredicate ==
  lastOp.op = "matchesFunctionFilters" =>
    LET func == lastOp.func
        statuses == Range(lastOp.filters.statuses)
        tags == Range(lastOp.filters.tags)
    IN /\ lastOp.result <=>
            /\ statuses = {} \/ StatusOf(func) \in statuses
            /\ \/ tags = {}
               \/ "entrypoint" \in tags /\ func.isEntrypoint = TRUE
               \/ "admin" \in tags /\ func.isAdmin = "true"
       /\ /\ lastOp.filters = [statuses |-> <<"read", "reviewed">>, tags |-> <<"admin">>]
          /\ \/ StatusOf(func) = "unread" /\ func.isAdmin = "true"
             \/ StatusOf(func) = "reviewed" /\ func.isAdmin # "true"
          => ~lastOp.result

\* The predicate was applied to an unread admin function under the filters
\* read, reviewed and admin, and it did not match.
C18_Witness ==
  /\ lastOp.op = "matchesFunctionFilters"
  /\ lastOp.filters = [statuses |-> <<"read", "reviewed">>, tags |-> <<"admin">>]
  /\ lastOp.func.readCount = 0
  /\ ~lastOp.func.isReviewed
  /\ lastOp.func.isAdmin = "true"
  /\ ~lastOp.result

----------------------------------------------------------------------------
(* Claims on the stored filters, under SpecFilters.                        *)

\* C19: in every reachable state functionFilters.statuses is a non-empty list
\* without duplicates of unread, read and reviewed, and functionFilters.tags a
\* list without duplicates of entrypoint and admin; a status selection with no
\* valid status in it is stored as all three statuses.
C19_FiltersWellFormed ==
  /\ Len(functionFilters.statuses) > 0
  /\ NoDuplicates(functionFilters.statuses)
  /\ Range(functionFilters.statuses) \subseteq {"unread", "read", "reviewed"}
  /\ NoDuplicates(functionFilters.tags)
  /\ Range(functionFilters.tags) \subseteq {"entrypoint", "admin"}
  /\ lastOp.op = "setFunctionFilters"
       /\ Range(lastOp.fns) \cap {"unread", "read", "reviewed"} = {}
     => functionFilters.statuses = <<"unread", "read", "reviewed">>

\* A state file with a number, a duplicated status and a duplicated tag in
\* its filters has been loaded: one status and two tags are stored.
C19_Witness ==
  /\ lastOp.op = "load"
  /\ disk[1] = "doc"
  /\ "functionFilters" \in DOMAIN disk[2]
  /\ disk[2].functionFilters =
       <<"object",
         <<"array", <<JsonNumber, JsonString("reviewed"), JsonString("reviewed")>>>>,
         <<"array", <<JsonString("admin"), JsonString("entrypoint"),
                      JsonString("admin")>>>>>>
  /\ functionFilters = [statuses |-> <<"reviewed">>, tags |-> <<"admin", "entrypoint">>]

----------------------------------------------------------------------------
(* The panel under the filter, hide and tag commands.                      *)

\* markAdmin
MarkAdmin(func) ==
  /\ SetField(func.id, "isAdmin", JsBool(TRUE))
  /\ saves' = SaveCalled(saves)
  /\ lastOp' = FunctionOp("markAdmin", func)
  /\ UNCHANGED <<scopePaths, excludedPaths, functionFilters, progressHistory,
                 lastModified, disk, uiVars>>

\* What showQuickPick resolves to: undefined when dismissed, or the picked
\* statuses and tags in the order of the list.
QuickPickResults ==
  {<<"undefined">>} \cup
  {<<"selected", s, t>> :
     s \in {<<>>, <<"unread">>, <<"read">>, <<"reviewed">>, <<"unread", "read">>,
            <<"unread", "reviewed">>, <<"read", "reviewed">>,
            <<"unread", "read", "reviewed">>},
     t \in TagLists}

\* filterFunctions
FilterFunctions(selected) ==
  IF selected[1] = "undefined"
    THEN /\ lastOp' = Op("filterFunctions", <<>>, <<>>)
         /\ UNCHANGED <<stateVars, saveVars, uiVars>>
    ELSE /\ functionFilters' =
              StoredFilters([statuses |-> IF Len(selected[2]) > 0
                                            THEN selected[2]
                                            ELSE DefaultFunctionFilters.statuses,
                             tags |-> selected[3]])
         /\ saves' = SaveCalled(saves)
         /\ lastOp' = Op("filterFunctions", <<>>, <<>>)
         /\ UNCHANGED <<scopePaths, excludedPaths, files, progressHistory,
                        lastModified, disk, uiVars>>

\* clearFunctionFilter
ClearFunctionFilter ==
  /\ functionFilters' = [statuses |-> DefaultFunctionFilters.statuses, tags |-> <<>>]
  /\ saves' = SaveCalled(saves)
  /\ lastOp' = Op("clearFunctionFilter", <<>>, <<>>)
  /\ UNCHANGED <<scopePaths, excludedPaths, files, progressHistory,
                 lastModified, disk, uiVars>>

NextPanel ==
  \/ SetFileFunctions(FileA, ExtractSymbols(FileA, ReviewSymbols))
  \/ SetFileFunctions(FileB, ExtractSymbols(FileB, ScopeSymbols))
  \/ \E func \in FunctionTreeItems : HideFunction(func)
  \/ \E filePath \in FileTreeItems : ShowHiddenFunctions(filePath)
  \/ \E func \in FunctionTreeItems : MarkAdmin(func)
  \/ \E selected \in QuickPickResults : FilterFunctions(selected)
  \/ ClearFunctionFilter

SpecPanel == Init /\ [][NextPanel]_vars

\* C20: whatever the filters, no hidden function is among the functions the
\* panel lists for a file; and a file is listed exactly when one of its
\* functions is not hidden and matches the active filters.
C20_HiddenNeverListed ==
  \A key \in DOMAIN files :
     /\ \A filters \in FilterValues \cup {functionFilters} :
          \A i \in 1..Len(files[key].functions) :
             files[key].functions[i].isHidden
               => ~Includes(GetChildren(files[key], filters), files[key].functions[i])
     /\ Includes(GetFileItems(files, functionFilters), key)
          <=> \E i \in 1..Len(files[key].functions) :
                 /\ ~files[key].functions[i].isHidden
                 /\ MatchesFunctionFilters(files[key].functions[i], functionFilters)
     /\ Includes(GetFileItems(files, functionFilters), key)
          <=> GetChildren(files[key], functionFilters) # <<>>

\* A file is listed for one function while another of its functions, hidden,
\* matches the admin filter in force; a second file is not listed.
C20_Witness ==
  /\ functionFilters.tags = <<"admin">>
  /\ \E key \in DOMAIN files :
        /\ Includes(GetFileItems(files, functionFilters), key)
        /\ \E i \in 1..Len(files[key].functions) :
              /\ files[key].functions[i].isHidden
              /\ MatchesFunctionFilters(files[key].functions[i], functionFilters)
  /\ \E key \in DOMAIN files : ~Includes(GetFileItems(files, functionFilters), key)


----------------------------------------------------------------------------
(* The progress report (auditTracker.showProgressReport).                  *)

\* The stored files, in some order (Object.values of the files map); the
\* counts below do not depend on the order.
RECURSIVE FilesAsList(_, _)
FilesAsList(fs, keys) ==
  IF keys = {} THEN <<>>
  ELSE LET k == CHOOSE p \in keys : TRUE
       IN <<fs[k]>> \o FilesAsList(fs, keys \ {k})

\* getAllFiles
GetAllFiles(fs) == FilesAsList(fs, DOMAIN fs)

RECURSIVE FlatMap(_)
FlatMap(lists) ==
  IF lists = <<>> THEN <<>> ELSE Head(lists) \o FlatMap(Tail(lists))

\* A report that takes the read and reviewed totals from the progress log.
ProgressTotals_fromHistory(allFiles) ==
  LET IsVisible(fn) == ~fn.isHidden
      HasVisible(f) == Len(f) > 0
      Sum(field) ==
        LET RECURSIVE Go(_)
            Go(i) == IF i = 0 THEN 0 ELSE progressHistory[i][field] + Go(i - 1)
        IN Go(Len(progressHistory))
      perFile == SelectSeq([i \in 1..Len(allFiles) |->
                              SelectSeq(allFiles[i].functions, IsVisible)],
                           HasVisible)
  IN [totalFunctions |-> Len(FlatMap(perFile)),
      totalRead |-> Sum("functionsRead"),
      totalReviewed |-> Sum("functionsReviewed"),
      totalFiles |-> Len(perFile),
      filesFullyRead |-> Sum("filesRead"),
      filesFullyReviewed |-> Sum("filesReviewed")]

\* The totals the handler passes to generateProgressReport: the visible
\* functions of each file, the files that have one, and counts over them.
ProgressTotals(allFiles) ==
  LET IsVisible(fn) == ~fn.isHidden
      HasVisible(f) == Len(f) > 0
      Read(fn) == fn.readCount > 0
      Reviewed(fn) == fn.isReviewed
      EveryRead(f) == \A i \in 1..Len(f) : f[i].readCount > 0
      EveryReviewed(f) == \A i \in 1..Len(f) : f[i].isReviewed
      filesWithVisibleFunctions ==
        SelectSeq([i \in 1..Len(allFiles) |->
                     SelectSeq(allFiles[i].functions, IsVisible)],
                  HasVisible)
      visibleFunctions == FlatMap(filesWithVisibleFunctions)
  IN [totalFunctions |-> Len(visibleFunctions),
      totalRead |-> Len(SelectSeq(visibleFunctions, Read)),
      totalReviewed |-> Len(SelectSeq(visibleFunctions, Reviewed)),
      totalFiles |-> Len(filesWithVisibleFunctions),
      filesFullyRead |-> Len(SelectSeq(filesWithVisibleFunctions, EveryRead)),
      filesFullyReviewed |->
        Len(SelectSeq(filesWithVisibleFunctions, EveryReviewed))]

\* showProgressReport: the report goes to a markdown file of its own; the
\* tracked state is neither changed nor saved.
ShowProgressReport ==
  /\ lastOp' = [op |-> "showProgressReport",
                totals |-> ProgressTotals(GetAllFiles(files))]
  /\ UNCHANGED <<stateVars, saveVars, uiVars>>

\* The filter selections of this specification.
ReportPicks ==
  {<<"selected", <<"read">>, <<>>>>, <<"selected", <<>>, <<"admin">>>>}

NextReport ==
  \/ SetFileFunctions(FileA, ExtractSymbols(FileA, ReviewSymbols))
  \/ SetFileFunctions(FileB, ExtractSymbols(FileB, ScopeSymbols))
  \/ \E func \in FunctionTreeItems : MarkRead(func, 1)
  \/ \E func \in FunctionTreeItems : UnmarkRead(func)
  \/ \E func \in FunctionTreeItems : MarkReviewed(func, 1)
  \/ \E func \in FunctionTreeItems : HideFunction(func)
  \/ \E selected \in ReportPicks : FilterFunctions(selected)
  \/ ClearFunctionFilter
  \/ ShowProgressReport

SpecReport == Init /\ [][NextReport]_vars

\* The functions of the files map that are not hidden, as a set of records.
NonHiddenStored ==
  {fn \in UNION {Range(files[p].functions) : p \in DOMAIN files} : ~fn.isHidden}

FilesWithNonHidden ==
  {p \in DOMAIN files : \E fn \in Range(files[p].functions) : ~fn.isHidden}

\* C21: the totals of a progress report are determined by the files map alone:
\* the counts range over the non-hidden functions and over the files that have
\* at least one, whatever the active filters and the progress log are.
C21_TotalsFromFiles ==
  lastOp.op = "showProgressReport" =>
    /\ lastOp.totals.totalFunctions = Cardinality(NonHiddenStored)
    /\ lastOp.totals.totalRead =
         Cardinality({fn \in NonHiddenStored : fn.readCount > 0})
    /\ lastOp.totals.totalReviewed =
         Cardinality({fn \in NonHiddenStored : fn.isReviewed})
    /\ lastOp.totals.totalFiles = Cardinality(FilesWithNonHidden)
    /\ lastOp.totals.filesFullyRead =
         Cardinality({p \in FilesWithNonHidden :
                        \A fn \in Range(files[p].functions) :
                          fn.isHidden \/ fn.readCount > 0})
    /\ lastOp.totals.filesFullyReviewed =
         Cardinality({p \in FilesWithNonHidden :
                        \A fn \in Range(files[p].functions) :
                          fn.isHidden \/ fn.isReviewed})

\* A report made with a filter active, a hidden function, and a log that
\* counts a read which the files map no longer shows.
C21_Witness ==
  /\ lastOp.op = "showProgressReport"
  /\ functionFilters # DefaultFunctionFilters
  /\ \E p \in DOMAIN files : \E fn \in Range(files[p].functions) : fn.isHidden
  /\ Len(progressHistory) = 1
  /\ progressHistory[1].functionsRead = 1
  /\ lastOp.totals.totalRead = 0
  /\ lastOp.totals.totalFunctions = 1


----------------------------------------------------------------------------
(* load() and the scope lists of a state file.                             *)

JsonText(s) == <<"string", s>>

\* What a state file holds under scopePaths or excludedPaths: arrays with
\* paths, a repeated path, an empty string and a number; a string; null.
RawPathLists ==
  {<<"null">>, JsonText(SrcDir)} \cup
  {<<"array", a>> :
     a \in {<<>>,
            <<JsonText(RepoDir)>>,
            <<JsonText(SrcDir), JsonText(SrcDir)>>,
            <<FiniteNumber(1), JsonText(FileA), JsonText(<<>>), JsonText(FileA)>>,
            <<JsonText(FileA), JsonText(FileB), JsonText(FileA)>>}}

\* The parsed state files of this specification.
ScopeDocuments ==
  {[scopePaths |-> s, excludedPaths |-> e] : s \in RawPathLists, e \in RawPathLists}
    \cup {[excludedPaths |-> e] : e \in RawPathLists}

\* The state after construction; the state file is absent, damaged (cut
\* short, or no JSON text at all) or a document.
InitWithScopeFile ==
  /\ scopePaths = <<>>
  /\ excludedPaths = <<>>
  /\ functionFilters = DefaultFunctionFilters
  /\ files = NoFiles
  /\ progressHistory = <<>>
  /\ lastModified = 0
  /\ saves = <<>>
  /\ disk \in {<<"none">>, <<"damaged">>}
               \cup {<<"damaged", d>> : d \in ScopeDocuments}
               \cup {<<"doc", d>> : d \in ScopeDocuments}
  /\ lastOp = NoOp
  /\ inFlight = {}
  /\ staleItems = {}

\* The paths the scope methods are called with in this specification.
LoadScopePaths == {SrcDir, FileA}

NextLoadScope ==
  \/ Load
  \/ \E p \in LoadScopePaths : AddScopePath(p)
  \/ \E p \in LoadScopePaths : RemoveScopePath(p)
  \/ AddExcludedPath(FileA)
  \/ RemoveExcludedPath(FileA)

SpecLoadScope == InitWithScopeFile /\ [][NextLoadScope]_vars

\* C22: a load completes whatever the state file is, and when the file is
\* missing, unreadable or no JSON document, the state it leaves is exactly the
\* fresh default state: nothing of the file is applied.
C22_LoadFallsBackToDefault ==
  (lastOp.op = "load" /\ disk[1] # "doc") =>
    /\ scopePaths = <<>>
    /\ excludedPaths = <<>>
    /\ files = NoFiles
    /\ progressHistory = <<>>
    /\ functionFilters = [statuses |-> <<"unread", "read", "reviewed">>,
                          tags |-> <<>>]
    /\ lastOp.state.version = FiniteNumber(1)

\* A load of a state file cut short, whose text begins with a scope list.
C22_Witness ==
  /\ lastOp.op = "load"
  /\ disk = <<"damaged", [scopePaths |-> <<"array", <<JsonText(RepoDir)>>>>,
                          excludedPaths |-> <<"array", <<JsonText(FileA),
                                                         JsonText(FileB),
                                                         JsonText(FileA)>>>>]>>
  /\ scopePaths = <<>>
  /\ excludedPaths = <<>>

\* The strings of a persisted list; none when the member is no array.
PersistedStrings(document, member) ==
  IF member \in DOMAIN document /\ document[member][1] = "array"
    THEN {document[member][2][i][2] :
            i \in {j \in 1..Len(document[member][2]) :
                     document[member][2][j][1] = "string"}}
    ELSE {}

\* C23: scopePaths and excludedPaths never hold a path twice, after load and
\* after any addScopePath, removeScopePath, addExcludedPath and
\* removeExcludedPath; right after load of a document each holds only
\* non-empty strings of the persisted array, and nothing when the member is
\* no array.
C23_PathListsUnique ==
  /\ NoDuplicates(scopePaths)
  /\ NoDuplicates(excludedPaths)
  /\ (lastOp.op = "load" /\ disk[1] = "doc") =>
       /\ \A p \in Range(scopePaths) :
            Len(p) > 0 /\ p \in PersistedStrings(disk[2], "scopePaths")
       /\ \A p \in Range(excludedPaths) :
            Len(p) > 0 /\ p \in PersistedStrings(disk[2], "excludedPaths")

\* A path added after the load of a list with a number, an empty string and a
\* repeated path.
C23_Witness ==
  /\ disk[1] = "doc"
  /\ "scopePaths" \in DOMAIN disk[2]
  /\ disk[2].scopePaths =
       <<"array", <<FiniteNumber(1), JsonText(FileA), JsonText(<<>>), JsonText(FileA)>>>>
  /\ disk[2].excludedPaths = JsonText(SrcDir)
  /\ lastOp.op = "addScopePath"
  /\ scopePaths = <<FileA, SrcDir>>
  /\ excludedPaths = <<>>


----------------------------------------------------------------------------
(* load() and the function records of a state file.                        *)

Missing == <<"missing">>

Infinite == <<"infinity">>

\* Persisted line numbers: negative, in range, beyond the double range, absent.
RawStartLines == {FiniteNumber(-3), FiniteNumber(10), Infinite, Missing}

RawEndLines ==
  {FiniteNumber(-1), FiniteNumber(4), FiniteNumber(12), Infinite, Missing}

RawReadCounts ==
  {FiniteNumber(-1), FiniteNumber(0), FiniteNumber(2), Infinite, Missing}

\* Persisted flags: absent; booleans; numbers, null and an object.
RawFlags ==
  { [isReviewed |-> Missing, isEntrypoint |-> Missing, isAdmin |-> Missing,
     isHidden |-> Missing],
    [isReviewed |-> <<"bool", TRUE>>, isEntrypoint |-> <<"bool", FALSE>>,
     isAdmin |-> <<"bool", TRUE>>, isHidden |-> <<"bool", FALSE>>],
    [isReviewed |-> FiniteNumber(1), isEntrypoint |-> <<"null">>,
     isAdmin |-> FiniteNumber(0), isHidden |-> <<"object", <<>>>>] }

\* Persisted function records: every combination of the above under the name
\* f, and records without a name, with an empty id and with an id.
RawFunctionRecords ==
  { [name |-> JsonText("f"), startLine |-> s, endLine |-> e, id |-> Missing,
     readCount |-> r, isReviewed |-> flags.isReviewed,
     isEntrypoint |-> flags.isEntrypoint, isAdmin |-> flags.isAdmin,
     isHidden |-> flags.isHidden] :
      s \in RawStartLines, e \in RawEndLines, r \in RawReadCounts,
      flags \in RawFlags }
  \cup
  { [name |-> n, startLine |-> FiniteNumber(10), endLine |-> FiniteNumber(12),
     id |-> i, readCount |-> FiniteNumber(1),
     isReviewed |-> Missing, isEntrypoint |-> Missing, isAdmin |-> Missing,
     isHidden |-> Missing] :
      i \in {Missing, JsonText(<<>>), JsonText(FunctionId(FileA, "g", 40))},
      n \in {Missing, JsonText("g")} }

\* The functions member of a persisted file: an array of one record, an array
\* with null before the record, or no array.
RawFunctionLists ==
  {Missing} \cup
  {<<"array", <<<<"object", fn>>>>>> : fn \in RawFunctionRecords} \cup
  {<<"array", <<<<"null">>, <<"object", fn>>>>>> :
     fn \in {r \in RawFunctionRecords : r.id # Missing}}

\* The parsed state files of this specification: one file, or a file and a
\* second key whose value is null.
FileDocuments ==
  {[files |-> <<"object", <<<<FileA, <<"object", fns>>>>>>>>] :
     fns \in RawFunctionLists}
  \cup {[files |-> <<"object", <<<<FileB, <<"null">>>>,
                                 <<FileA, <<"object", Missing>>>>>>>>],
        [files |-> <<"null">>]}

InitWithFunctionsFile ==
  /\ scopePaths = <<>>
  /\ excludedPaths = <<>>
  /\ functionFilters = DefaultFunctionFilters
  /\ files = NoFiles
  /\ progressHistory = <<>>
  /\ lastModified = 0
  /\ saves = <<>>
  /\ disk \in {<<"doc", d>> : d \in FileDocuments}
  /\ lastOp = NoOp
  /\ inFlight = {}
  /\ staleItems = {}

NextLoadFiles ==
  \/ Load
  \/ \E func \in FunctionTreeItems : MarkRead(func, 1)
  \/ \E func \in FunctionTreeItems : HideFunction(func)

SpecLoadFiles == InitWithFunctionsFile /\ [][NextLoadFiles]_vars

\* The persisted records of a file that are objects, in the order of the file.
PersistedFunctions(filePath) ==
  LET IsEntry(entry) == entry[1] = filePath
      IsObject(fn) == fn[1] = "object"
      file == SelectSeq(disk[2].files[2], IsEntry)[1][2]
  IN IF file[2][1] = "array" THEN SelectSeq(file[2][2], IsObject) ELSE <<>>

AfterLoadOfDocument == lastOp.op = "load" /\ disk[1] = "doc"

\* C24: after load of a parseable document every stored function record has
\* endLine >= startLine, readCount 0 or 1 and boolean flags, and a flag the
\* persisted record does not have is false.
C24_FunctionRecordsNormalized ==
  AfterLoadOfDocument =>
    \A filePath \in DOMAIN files :
      LET stored == files[filePath].functions
          persisted == PersistedFunctions(filePath)
      IN /\ Len(stored) = Len(persisted)
         /\ \A i \in 1..Len(stored) :
              /\ stored[i].endLine >= stored[i].startLine
              /\ stored[i].readCount \in {0, 1}
              /\ stored[i].isReviewed \in BOOLEAN
              /\ stored[i].isEntrypoint \in BOOLEAN
              /\ stored[i].isAdmin \in {"false", "true"}
              /\ stored[i].isHidden \in BOOLEAN
              /\ persisted[i][2].isReviewed = Missing => ~stored[i].isReviewed
              /\ persisted[i][2].isEntrypoint = Missing => ~stored[i].isEntrypoint
              /\ persisted[i][2].isAdmin = Missing => stored[i].isAdmin = "false"
              /\ persisted[i][2].isHidden = Missing => ~stored[i].isHidden

\* The load of a record whose end line is before its start line, whose count
\* is 2 and which has no flag.
C24_Witness ==
  /\ AfterLoadOfDocument
  /\ FileA \in DOMAIN files
  /\ Len(PersistedFunctions(FileA)) = 1
  /\ PersistedFunctions(FileA)[1][2].startLine = FiniteNumber(10)
  /\ PersistedFunctions(FileA)[1][2].endLine = FiniteNumber(4)
  /\ PersistedFunctions(FileA)[1][2].readCount = FiniteNumber(2)
  /\ PersistedFunctions(FileA)[1][2].isHidden = Missing
  /\ files[FileA].functions[1].endLine = 10
  /\ files[FileA].functions[1].readCount = 1
  /\ ~files[FileA].functions[1].isHidden

\* C25: after load of a parseable document every stored startLine and endLine
\* is a non-negative finite number: a persisted line number that was negative
\* or not finite has been reset.
C25_LineNumbersNonNegative ==
  AfterLoadOfDocument =>
    \A filePath \in DOMAIN files :
      \A i \in 1..Len(files[filePath].functions) :
        /\ files[filePath].functions[i].startLine >= 0
        /\ files[filePath].functions[i].endLine >= 0


----------------------------------------------------------------------------
(* load() and the progress history of a state file.                        *)

\* Persisted progress actions: two of a known type, one with a line count
\* that is not finite and no path, one of an unknown type, one without type.
RawActions ==
  { <<"object", [filePath |-> JsonText(RelativePath(FileA)),
                 type |-> JsonText("functionRead"),
                 functionName |-> JsonText("f"), lineCount |-> FiniteNumber(1)]>>,
    <<"object", [filePath |-> JsonText(RelativePath(FileA)),
                 type |-> JsonText("fileRead"),
                 functionName |-> Missing, lineCount |-> Missing]>>,
    <<"object", [filePath |-> Missing, type |-> JsonText("functionReviewed"),
                 functionName |-> JsonText("g"), lineCount |-> Infinite]>>,
    <<"object", [filePath |-> JsonText(RelativePath(FileA)),
                 type |-> JsonText("bogus"),
                 functionName |-> JsonText("f"), lineCount |-> FiniteNumber(1)]>>,
    <<"object", [filePath |-> Missing, type |-> Missing,
                 functionName |-> Missing, lineCount |-> Missing]>>,
    <<"null">> }

\* The actions member of a persisted entry: no array, or an array of at most
\* two of the actions above.
RawActionLists ==
  {Missing, <<"array", <<>>>>} \cup
  {<<"array", <<a>>>> : a \in RawActions} \cup
  {<<"array", <<a, b>>>> : a \in RawActions, b \in RawActions}

RawDates == {JsonText(1), JsonText(2), Missing}

\* A persisted entry; its counters are all finite, or absent and not finite.
RawEntry(date, actions, finite) ==
  <<"object",
    [actions |-> actions,
     date |-> date,
     functionsRead |-> IF finite THEN FiniteNumber(1) ELSE Missing,
     functionsReviewed |-> IF finite THEN FiniteNumber(0) ELSE Infinite,
     linesRead |-> IF finite THEN FiniteNumber(6) ELSE Missing,
     linesReviewed |-> IF finite THEN FiniteNumber(0) ELSE Infinite,
     filesRead |-> IF finite THEN FiniteNumber(1) ELSE Missing,
     filesReviewed |-> IF finite THEN FiniteNumber(0) ELSE Missing]>>

\* The progressHistory member: one entry; two entries of one date or of two;
\* null between entries; no array.
RawHistories ==
  {<<"null">>} \cup
  {<<"array", <<RawEntry(d, a, finite)>>>> :
     d \in RawDates, a \in RawActionLists, finite \in BOOLEAN} \cup
  {<<"array", <<RawEntry(d1, <<"array", <<>>>>, TRUE), <<"null">>,
                RawEntry(d2, Missing, FALSE)>>>> :
     d1 \in RawDates, d2 \in RawDates}

ProgressDocuments == {[progressHistory |-> h] : h \in RawHistories}

InitWithProgressFile ==
  /\ scopePaths = <<>>
  /\ excludedPaths = <<>>
  /\ functionFilters = DefaultFunctionFilters
  /\ files = NoFiles
  /\ progressHistory = <<>>
  /\ lastModified = 0
  /\ saves = <<>>
  /\ disk \in {<<"doc", d>> : d \in ProgressDocuments}
  /\ lastOp = NoOp
  /\ inFlight = {}
  /\ staleItems = {}

NextLoadProgress ==
  \/ Load
  \/ SetFileFunctions(FileA, ExtractSymbols(FileA, ScopeSymbols))
  \/ \E func \in FunctionTreeItems, today \in Days : MarkRead(func, today)
  \/ \E func \in FunctionTreeItems, today \in Days : MarkReviewed(func, today)

SpecLoadProgress == InitWithProgressFile /\ [][NextLoadProgress]_vars

\* The persisted entries that are objects, in the order of the file.
PersistedEntries ==
  LET IsObject(entry) == entry[1] = "object"
      raw == disk[2].progressHistory
  IN IF raw[1] = "array" THEN SelectSeq(raw[2], IsObject) ELSE <<>>

\* The types of the persisted actions of an entry that are of a known type,
\* in the order of the file.
PersistedKnownTypes(entry) ==
  LET IsKnown(a) ==
        /\ a[1] = "object"
        /\ a[2].type \in {JsonText("functionRead"), JsonText("functionReviewed"),
                          JsonText("fileRead"), JsonText("fileReviewed")}
      known == IF entry.actions[1] = "array"
                 THEN SelectSeq(entry.actions[2], IsKnown) ELSE <<>>
  IN [k \in 1..Len(known) |-> known[k][2].type[2]]

\* C26: load removes a progress action whose type is none of functionRead,
\* functionReviewed, fileRead and fileReviewed, and nothing else: every
\* persisted entry stays, with its actions of a known type in their order.
C26_UnknownActionsDropped ==
  AfterLoadOfDocument =>
    /\ Len(progressHistory) = Len(PersistedEntries)
    /\ \A i \in 1..Len(progressHistory) :
         [k \in 1..Len(progressHistory[i].actions) |->
            progressHistory[i].actions[k].type]
           = PersistedKnownTypes(PersistedEntries[i][2])

\* The load of an entry whose first action is of an unknown type and whose
\* second is a fileRead.
C26_Witness ==
  /\ AfterLoadOfDocument
  /\ Len(PersistedEntries) = 1
  /\ PersistedEntries[1][2].actions[1] = "array"
  /\ Len(PersistedEntries[1][2].actions[2]) = 2
  /\ PersistedEntries[1][2].actions[2][1][1] = "object"
  /\ PersistedEntries[1][2].actions[2][1][2].type = JsonText("bogus")
  /\ Len(progressHistory) = 1
  /\ Len(progressHistory[1].actions) = 1
  /\ progressHistory[1].actions[1].type = "fileRead"

\* C29: progressHistory holds at most one entry for a date, in every state:
\* after load of any parseable document and after any recorded action.
C29_OneEntryPerDate ==
  \A i \in 1..Len(progressHistory) : \A j \in 1..Len(progressHistory) :
    progressHistory[i].date = progressHistory[j].date => i = j


----------------------------------------------------------------------------
(* A state written by JSON.stringify and read back by load().              *)

\* JSON.stringify of a number: null when the number is not finite.
SerializeNumber(v) == IF v[1] = "number" THEN v ELSE <<"null">>

SerializeStrings(strings) ==
  <<"array", [i \in 1..Len(strings) |-> JsonText(strings[i])]>>

\* A function record as JSON.stringify writes it and JSON.parse reads it: an
\* isAdmin that is undefined is not written.
SerializeFunction(fn) ==
  <<"object",
    [name |-> JsonText(fn.name),
     startLine |-> FiniteNumber(fn.startLine),
     endLine |-> FiniteNumber(fn.endLine),
     id |-> JsonText(fn.id),
     readCount |-> FiniteNumber(fn.readCount),
     isReviewed |-> <<"bool", fn.isReviewed>>,
     isEntrypoint |-> <<"bool", fn.isEntrypoint>>,
     isAdmin |-> IF fn.isAdmin = Undefined THEN Missing
                 ELSE <<"bool", Truthy(fn.isAdmin)>>,
     isHidden |-> <<"bool", fn.isHidden>>]>>

SerializeFiles(fs) ==
  LET list == GetAllFiles(fs)
  IN <<"object",
       [i \in 1..Len(list) |->
          <<list[i].filePath,
            <<"object",
              <<"array", [k \in 1..Len(list[i].functions) |->
                            SerializeFunction(list[i].functions[k])]>>>>>>]>>

\* A member that is undefined is not written.
SerializeAction(a) ==
  <<"object",
    [filePath |-> JsonText(a.filePath),
     type |-> JsonText(a.type),
     functionName |-> IF "functionName" \in DOMAIN a
                        THEN JsonText(a.functionName) ELSE Missing,
     lineCount |-> IF "lineCount" \in DOMAIN a
                     THEN FiniteNumber(a.lineCount) ELSE Missing]>>

SerializeEntry(entry) ==
  <<"object",
    [actions |-> <<"array", [k \in 1..Len(entry.actions) |->
                               SerializeAction(entry.actions[k])]>>,
     date |-> JsonText(entry.date),
     functionsRead |-> FiniteNumber(entry.functionsRead),
     functionsReviewed |-> FiniteNumber(entry.functionsReviewed),
     linesRead |-> FiniteNumber(entry.linesRead),
     linesReviewed |-> FiniteNumber(entry.linesReviewed),
     filesRead |-> FiniteNumber(entry.filesRead),
     filesReviewed |-> FiniteNumber(entry.filesReviewed)]>>

SerializeFilters(filters) ==
  <<"object",
    <<"array", [i \in 1..Len(filters.statuses) |-> JsonString(filters.statuses[i])]>>,
    <<"array", [i \in 1..Len(filters.tags) |-> JsonString(filters.tags[i])]>>>>

\* JSON.parse(JSON.stringify(state)): the document a state is read back as.
SerializeState(state) ==
  [scopePaths |-> SerializeStrings(state.scopePaths),
   excludedPaths |-> SerializeStrings(state.excludedPaths),
   functionFilters |-> SerializeFilters(state.functionFilters),
   files |-> SerializeFiles(state.files),
   progressHistory |-> <<"array", [i \in 1..Len(state.progressHistory) |->
                                     SerializeEntry(state.progressHistory[i])]>>,
   lastModified |-> SerializeNumber(state.lastModified),
   version |-> SerializeNumber(state.version)]

\* The version and lastModified members of a state file: numbers, a number
\* beyond the double range, a string.
RawVersions == {FiniteNumber(1), FiniteNumber(2), Infinite, JsonText("1")}

VersionDocuments ==
  {[lastModified |-> m, version |-> v] : v \in RawVersions, m \in RawVersions}

\* The parsed state files of this specification.
RoundTripDocuments ==
  ScopeDocuments \cup FileDocuments \cup ProgressDocuments \cup RawDocuments
    \cup VersionDocuments

InitWithAnyStateFile ==
  /\ scopePaths = <<>>
  /\ excludedPaths = <<>>
  /\ functionFilters = DefaultFunctionFilters
  /\ files = NoFiles
  /\ progressHistory = <<>>
  /\ lastModified = 0
  /\ saves = <<>>
  /\ disk \in {<<"doc", d>> : d \in RoundTripDocuments}
  /\ lastOp = NoOp
  /\ inFlight = {}
  /\ staleItems = {}

\* The state that load built, serialized and normalized again over the
\* defaults, as load does with the text of a state file.
LoadAgain ==
  /\ lastOp.op = "load"
  /\ LET again == NormalizeState(SpreadOverDefaults(SerializeState(lastOp.state)))
     IN /\ scopePaths' = again.scopePaths
        /\ excludedPaths' = again.excludedPaths
        /\ functionFilters' = again.functionFilters
        /\ files' = again.files
        /\ progressHistory' = again.progressHistory
        /\ lastOp' = [op |-> "loadAgain", state |-> lastOp.state, again |-> again]
  /\ UNCHANGED <<saveVars, uiVars>>

NextRoundTrip ==
  \/ Load
  \/ LoadAgain

SpecRoundTrip == InitWithAnyStateFile /\ [][NextRoundTrip]_vars

\* C27: normalization is idempotent: a state produced by normalizeState,
\* serialized and loaded again, is the same state.
C27_NormalizationIdempotent ==
  lastOp.op = "loadAgain" => lastOp.again = lastOp.state

\* The same, for every member but version and lastModified, the two numbers
\* normalizeState accepts without Number.isFinite.
C27_ExceptVersionAndStamp ==
  lastOp.op = "loadAgain" =>
    [lastOp.again EXCEPT !.version = 0, !.lastModified = 0]
      = [lastOp.state EXCEPT !.version = 0, !.lastModified = 0]


----------------------------------------------------------------------------
(* The state over a session: scope, review commands and clearAllState.     *)

NextSession ==
  \/ Load
  \/ AddScopePath(SrcDir)
  \/ RemoveScopePath(SrcDir)
  \/ SetFileFunctions(FileA, ExtractSymbols(FileA, ReviewSymbols))
  \/ RemoveFile(FileA)
  \/ \E func \in FunctionTreeItems, today \in Days : MarkRead(func, today)
  \/ \E func \in FunctionTreeItems : UnmarkRead(func)
  \/ \E func \in FunctionTreeItems, today \in Days : MarkReviewed(func, today)
  \/ \E func \in FunctionTreeItems : UnmarkReviewed(func)
  \/ \E func \in FunctionTreeItems : HideFunction(func)
  \/ \E filePath \in FileTreeItems : ShowHiddenFunctions(filePath)
  \/ ClearAllState

SpecSession == Init /\ [][NextSession]_vars

\* The same on a file of one function, with the excluded paths and the
\* filters changing too.
NextClear ==
  \/ Load
  \/ AddScopePath(SrcDir)
  \/ RemoveScopePath(SrcDir)
  \/ AddExcludedPath(FileB)
  \/ SetFileFunctions(FileA, ExtractSymbols(FileA, ScopeSymbols))
  \/ \E func \in FunctionTreeItems, today \in Days : MarkRead(func, today)
  \/ \E func \in FunctionTreeItems, today \in Days : MarkReviewed(func, today)
  \/ \E selected \in ReportPicks : FilterFunctions(selected)
  \/ ClearAllState

SpecClear == Init /\ [][NextClear]_vars

\* C28: clearAllState leaves the default state whatever preceded it: no scope
\* path, no excluded path, no file, no progress history, the default filters;
\* nothing that was added since an earlier default state is in it.
C28_ClearAllStateResets ==
  lastOp.op = "clearAllState" =>
    /\ scopePaths = <<>>
    /\ excludedPaths = <<>>
    /\ files = NoFiles
    /\ progressHistory = <<>>
    /\ functionFilters = [statuses |-> <<"unread", "read", "reviewed">>,
                          tags |-> <<>>]

\* clearAllState on a state with a scope path and a tracked file.
C28_Witness ==
  /\ lastOp.op = "clearAllState"
  /\ lastOp.prev = <<SrcDir>>
  /\ lastOp.keys = {FileA}
  /\ scopePaths = <<>>
  /\ files = NoFiles

IsPrefix(s, t) == Len(s) <= Len(t) /\ SubSeq(t, 1, Len(s)) = s

\* C30: progress entries are append-only: a step of any operation but
\* clearAllState and load removes no entry, leaves the action list of every
\* entry a prefix of its later list, and decreases no counter.
C30_ProgressAppendOnly ==
  [][lastOp'.op \notin {"clearAllState", "load"} =>
       /\ Len(progressHistory') >= Len(progressHistory)
       /\ \A i \in 1..Len(progressHistory) :
            /\ progressHistory'[i].date = progressHistory[i].date
            /\ IsPrefix(progressHistory[i].actions, progressHistory'[i].actions)
            /\ progressHistory'[i].functionsRead >= progressHistory[i].functionsRead
            /\ progressHistory'[i].functionsReviewed
                 >= progressHistory[i].functionsReviewed
            /\ progressHistory'[i].linesRead >= progressHistory[i].linesRead
            /\ progressHistory'[i].linesReviewed >= progressHistory[i].linesReviewed
            /\ progressHistory'[i].filesRead >= progressHistory[i].filesRead
            /\ progressHistory'[i].filesReviewed >= progressHistory[i].filesReviewed]_vars

\* unmarkRead of a function whose read the log of the day keeps.
C30_Witness ==
  /\ lastOp.op = "unmarkRead"
  /\ Len(progressHistory) = 1
  /\ progressHistory[1].functionsRead = 1
  /\ Len(progressHistory[1].actions) = 1
  /\ progressHistory[1].actions[1].type = "functionRead"
  /\ \A i \in 1..Len(files[FileA].functions) :
       files[FileA].functions[i].readCount = 0


----------------------------------------------------------------------------
(* The counters of a progress entry against its list of actions.           *)

\* lineCount of a recorded action; an action without the member counts none.
ActionLines(a) == IF "lineCount" \in DOMAIN a THEN a.lineCount ELSE 0

\* The sum of lineCount over the actions of one type.
RECURSIVE LinesOfType(_, _)
LinesOfType(actions, type) ==
  IF actions = <<>> THEN 0
  ELSE (IF Head(actions).type = type THEN ActionLines(Head(actions)) ELSE 0)
         + LinesOfType(Tail(actions), type)

CountersAgree(entry) ==
  /\ entry.functionsRead = CountType(entry.actions, "functionRead")
  /\ entry.functionsReviewed = CountType(entry.actions, "functionReviewed")
  /\ entry.filesRead = CountType(entry.actions, "fileRead")
  /\ entry.filesReviewed = CountType(entry.actions, "fileReviewed")
  /\ entry.linesRead = LinesOfType(entry.actions, "functionRead")
  /\ entry.linesReviewed = LinesOfType(entry.actions, "functionReviewed")

\* C31: in every state, after load of any parseable document too, the
\* counters of each progress entry agree with its actions: the four counts
\* are the numbers of actions of their type and the two line counters are
\* the sums of lineCount over the functionRead and functionReviewed actions.
C31_CountersAgreeWithActions ==
  \A i \in 1..Len(progressHistory) : CountersAgree(progressHistory[i])

\* The counters agree in every state of a session that began without a
\* state file: the record methods keep the agreement.
C31_RecordedCountersAgree ==
  disk = <<"none">> =>
    \A i \in 1..Len(progressHistory) : CountersAgree(progressHistory[i])


----------------------------------------------------------------------------
(* load() of a file with two persisted function records, and extraction    *)
(* after it.                                                               *)

\* Persisted records named f or g at line 10 or 40, without an id (load then
\* builds it from path, name and line) or with the id of f at line 10.
RawIdRecords ==
  { [name |-> JsonText(n), startLine |-> FiniteNumber(l),
     endLine |-> FiniteNumber(l + 2), id |-> i, readCount |-> FiniteNumber(1),
     isReviewed |-> Missing, isEntrypoint |-> Missing, isAdmin |-> Missing,
     isHidden |-> Missing] :
      n \in Names, l \in StartLines,
      i \in {Missing, JsonText(FunctionId(FileA, "f", 10))} }

IdDocuments ==
  {[files |-> <<"object", <<<<FileA, <<"object",
       <<"array", <<<<"object", a>>, <<"object", b>>>>>>>>>>>>>>] :
     a \in RawIdRecords, b \in RawIdRecords}

InitWithTwoRecords ==
  /\ scopePaths = <<>>
  /\ excludedPaths = <<>>
  /\ functionFilters = DefaultFunctionFilters
  /\ files = NoFiles
  /\ progressHistory = <<>>
  /\ lastModified = 0
  /\ saves = <<>>
  /\ disk \in {<<"none">>} \cup {<<"doc", d>> : d \in IdDocuments}
  /\ lastOp = NoOp
  /\ inFlight = {}
  /\ staleItems = {}

\* What the provider reports after the load: nothing, one function, two
\* symbols at one line, two functions.
IdSymbolLists ==
  { <<>>,
    <<[name |-> "f", startLine |-> 10, kind |-> "Function", endLine |-> 10]>>,
    <<[name |-> "f", startLine |-> 10, kind |-> "Function", endLine |-> 10],
      [name |-> "g", startLine |-> 10, kind |-> "Method", endLine |-> 15]>>,
    <<[name |-> "g", startLine |-> 40, kind |-> "Function", endLine |-> 45],
      [name |-> "f", startLine |-> 10, kind |-> "Function", endLine |-> 10]>> }

NextLoadIds ==
  \/ Load
  \/ \E l \in IdSymbolLists : SetFileFunctions(FileA, ExtractSymbols(FileA, l))
  \/ \E id \in MergeIds, b \in BOOLEAN : SetRead(id, b)

SpecLoadIds == InitWithTwoRecords /\ [][NextLoadIds]_vars

DistinctIds(functions) ==
  \A i \in 1..Len(functions) : \A j \in 1..Len(functions) :
    functions[i].id = functions[j].id => i = j

\* C32: in every state, after load of any parseable document and after
\* setFileFunctions with any extractor output too, the functions of each
\* tracked file have pairwise distinct ids.
C32_FunctionIdsDistinct ==
  \A filePath \in DOMAIN files : DistinctIds(files[filePath].functions)

\* The ids are distinct right after setFileFunctions: the extractor keeps one
\* symbol for a start line, and the stored ids are the candidates'.
C32_ReconciledIdsDistinct ==
  lastOp.op \in {"setFileFunctions", "setFileFunctionsNew"} =>
    \A filePath \in DOMAIN files : DistinctIds(files[filePath].functions)


----------------------------------------------------------------------------
(* The file watcher: a change of a file in scope refreshes its symbols.    *)
(* The handler checks the scope, awaits the extraction, and then stores    *)
(* the result and saves; other handlers run while it waits.                *)

\* What the document symbol provider does for a file: it throws, returns
\* undefined, or returns a list of symbols.
ProviderThrows == <<"throws">>

ProviderUndefined == <<"undefined">>

RefreshSymbolLists ==
  { <<>>,
    <<[name |-> "f", startLine |-> 10, kind |-> "Function", endLine |-> 10]>>,
    <<[name |-> "f", startLine |-> 40, kind |-> "Function", endLine |-> 40]>>,
    <<[name |-> "g", startLine |-> 10, kind |-> "Variable", endLine |-> 15]>> }

ProviderResults ==
  {ProviderThrows, ProviderUndefined} \cup
  {<<"symbols", l>> : l \in RefreshSymbolLists}

\* extractSymbols without its try block: the provider's exception rejects
\* the promise.
ExtractSymbolsPromise_rethrows(filePath, provider) ==
  IF provider = ProviderThrows THEN <<"rejected">>
  ELSE IF provider = ProviderUndefined THEN <<"resolved", <<>>>>
  ELSE <<"resolved", ExtractSymbols(filePath, provider[2])>>

\* The promise extractSymbols returns: catch { return []; } and
\* if (!symbols || symbols.length === 0) return [];
ExtractSymbolsPromise(filePath, provider) ==
  IF provider = ProviderThrows THEN <<"resolved", <<>>>>
  ELSE IF provider = ProviderUndefined THEN <<"resolved", <<>>>>
  ELSE <<"resolved", ExtractSymbols(filePath, provider[2])>>

\* The stored records of a file, as a set; none when it is not tracked.
StoredRecords(filePath) ==
  IF filePath \in DOMAIN files THEN Range(files[filePath].functions) ELSE {}

\* fileWatcher.onDidChange up to its await: the scope check.
OnDidChange(filePath) ==
  /\ IsPathInScope(filePath)
  /\ filePath \notin inFlight
  /\ inFlight' = inFlight \cup {filePath}
  /\ lastOp' = Op("onDidChange", filePath, <<>>)
  /\ UNCHANGED <<stateVars, saveVars, staleItems>>

\* ScopeManager.refreshFileSymbols once the extraction has resolved: the
\* list goes to setFileFunctions.
ScopeManagerRefreshFileSymbols(filePath, functions) ==
  IF filePath \in DOMAIN files
    THEN [files EXCEPT ![filePath] =
            ScopedFile(filePath, MergeFunctions(files[filePath].functions, functions))]
    ELSE (filePath :> ScopedFile(filePath, functions)) @@ files

\* onDidChange after its await: refreshFileSymbols hands the extracted list
\* to setFileFunctions, then save() and treeProvider.refresh().  A rejected
\* extraction would end the handler there.  The records the store replaces
\* stay with the items of the panel until it renders again.
RefreshFileSymbols(filePath, provider) ==
  LET promise == ExtractSymbolsPromise(filePath, provider)
  IN /\ filePath \in inFlight
     /\ inFlight' = inFlight \ {filePath}
     /\ IF promise[1] = "resolved"
          THEN /\ files' = ScopeManagerRefreshFileSymbols(filePath, promise[2])
               /\ staleItems' = staleItems \cup StoredRecords(filePath)
               /\ saves' = SaveCalled(saves)
               /\ lastOp' = [op |-> "refreshFileSymbols", path |-> filePath,
                             fns |-> promise[2], prev |-> <<>>, keys |-> {},
                             provider |-> provider]
               /\ UNCHANGED <<scopePaths, excludedPaths, functionFilters,
                              progressHistory, lastModified, disk>>
          ELSE /\ lastOp' = [op |-> "refreshRejected", path |-> filePath,
                             fns |-> <<>>, prev |-> <<>>, keys |-> {},
                             provider |-> provider]
               /\ UNCHANGED <<stateVars, saveVars, staleItems>>

\* fileWatcher.onDidDelete: no await before the store update.
OnDidDelete(filePath) ==
  /\ IsPathInScope(filePath)
  /\ files' = [key \in DOMAIN files \ {filePath} |-> files[key]]
  /\ staleItems' = staleItems \cup StoredRecords(filePath)
  /\ saves' = SaveCalled(saves)
  /\ lastOp' = Op("onDidDelete", filePath, <<>>)
  /\ UNCHANGED <<scopePaths, excludedPaths, functionFilters, progressHistory,
                 lastModified, disk, inFlight>>

\* The panel renders after treeProvider.refresh(): its items are built from
\* the stored records again.
TreeRender ==
  /\ staleItems # {}
  /\ staleItems' = {}
  /\ lastOp' = Op("getChildren", <<>>, <<>>)
  /\ UNCHANGED <<stateVars, saveVars, inFlight>>

WatchedFiles == {FileA, FileB}

NextWatch ==
  \/ \E p \in {SrcDir, FileA} : AddToScope(p)
  \/ \E p \in WatchedFiles : RemoveFromScopeFile(p)
  \/ RemoveFromScopeDirectory(SrcDir)
  \/ \E p \in WatchedFiles : OnDidChange(p)
  \/ \E p \in WatchedFiles, provider \in ProviderResults : RefreshFileSymbols(p, provider)
  \/ \E p \in WatchedFiles : OnDidDelete(p)
  \/ TreeRender

SpecWatch == Init /\ [][NextWatch]_vars

\* The refresh that just ended was of an extraction that failed: the
\* provider threw, or returned nothing.
FailedExtraction ==
  /\ lastOp'.op \in {"refreshFileSymbols", "refreshRejected"}
  /\ lastOp'.provider \in {ProviderThrows, ProviderUndefined, <<"symbols", <<>>>>}

\* C33: a failure of symbol extraction is no error for the core:
\* extractSymbols returns the empty list, the handler goes on to store it,
\* and the file is tracked with zero functions after it; a tracked file
\* without functions stays so until a refresh of it or its removal.
C33_ExtractionFailureIsEmpty ==
  [][/\ FailedExtraction =>
          /\ lastOp'.op = "refreshFileSymbols"
          /\ lastOp'.fns = <<>>
          /\ lastOp'.path \in DOMAIN files'
          /\ files'[lastOp'.path].functions = <<>>
     /\ \A p \in DOMAIN files :
          /\ files[p].functions = <<>>
          /\ ~(lastOp'.op \in {"refreshFileSymbols", "addToScope"})
          /\ p \in DOMAIN files'
          => files'[p].functions = <<>>]_vars

\* A tracked file with a function lost it to an extraction in which the
\* provider threw.
C33_Witness ==
  /\ lastOp.op = "refreshFileSymbols"
  /\ lastOp.provider = ProviderThrows
  /\ lastOp.path = FileA
  /\ FileA \in DOMAIN files
  /\ files[FileA].functions = <<>>
  /\ staleItems # {}


----------------------------------------------------------------------------
(* loadScopeFile: the lines of SCOPE.txt, each resolved against the        *)
(* workspace root and handed to addToScope.                                *)

\* String.prototype.trim, for the space character.
RECURSIVE TrimStart(_)
TrimStart(str) ==
  IF str # <<>> /\ Head(str) = " " THEN TrimStart(Tail(str)) ELSE str

RECURSIVE TrimEnd(_)
TrimEnd(str) ==
  IF str # <<>> /\ str[Len(str)] = " "
    THEN TrimEnd(SubSeq(str, 1, Len(str) - 1)) ELSE str

Trim(str) == TrimEnd(TrimStart(str))

\* str.split("/")
RECURSIVE SplitPath(_)
SplitPath(str) ==
  IF \A i \in 1..Len(str) : str[i] # Sep THEN <<str>>
  ELSE LET first == CHOOSE i \in 1..Len(str) :
                      /\ str[i] = Sep
                      /\ \A j \in 1..(i - 1) : str[j] # Sep
       IN <<SubSeq(str, 1, first - 1)>> \o SplitPath(SubSeq(str, first + 1, Len(str)))

\* The segments of an absolute path with "", "." and ".." resolved; ".." at
\* the root stays at the root.
RECURSIVE NormalizeSegments(_, _)
NormalizeSegments(segments, done) ==
  IF segments = <<>> THEN done
  ELSE LET segment == Head(segments)
       IN IF segment = <<>> \/ segment = <<".">>
            THEN NormalizeSegments(Tail(segments), done)
          ELSE IF segment = <<".", ".">>
            THEN NormalizeSegments(Tail(segments),
                                   SubSeq(done, 1, IF done = <<>> THEN 0 ELSE Len(done) - 1))
          ELSE NormalizeSegments(Tail(segments), Append(done, segment))

\* segments.join("/")
RECURSIVE JoinPath(_)
JoinPath(segments) ==
  IF segments = <<>> THEN <<>>
  ELSE IF Len(segments) = 1 THEN segments[1]
  ELSE segments[1] \o <<Sep>> \o JoinPath(Tail(segments))

\* path.isAbsolute
IsAbsolute(str) == str # <<>> /\ str[1] = Sep

\* path.resolve(workspaceRoot, trimmed)
PathResolve(root, str) ==
  LET whole == IF IsAbsolute(str) THEN str ELSE root \o <<Sep>> \o str
  IN <<Sep>> \o JoinPath(NormalizeSegments(SplitPath(whole), <<>>))

\* path.relative(from, to) of two resolved paths: ".." for each segment of
\* from below the common folder, then the rest of to.
PathRelative(from, to) ==
  LET a == NormalizeSegments(SplitPath(from), <<>>)
      b == NormalizeSegments(SplitPath(to), <<>>)
      Common(k) == k <= Len(a) /\ k <= Len(b) /\ \A i \in 1..k : a[i] = b[i]
      shared == CHOOSE k \in 0..Len(a) : Common(k) /\ ~Common(k + 1)
  IN JoinPath([i \in 1..(Len(a) - shared) |-> <<".", ".">>]
              \o SubSeq(b, shared + 1, Len(b)))

\* isWithinWorkspace
IsWithinWorkspace(workspaceRoot, filePath) ==
  LET rel == PathRelative(workspaceRoot, filePath)
  IN rel = <<>> \/ (~StartsWith(rel, <<".", ".">>) /\ ~IsAbsolute(rel))

\* The line as the loop reads it: trimmed, a leading "- " or "* " cut off.
CleanedLine(line) ==
  LET trimmed == Trim(line)
  IN IF StartsWith(trimmed, <<"-", " ">>) \/ StartsWith(trimmed, <<"*", " ">>)
       THEN Trim(SubSeq(trimmed, 3, Len(trimmed)))
       ELSE trimmed

\* if (!trimmed || trimmed.startsWith("#") || trimmed.startsWith("//")) continue
IsSkippedLine(trimmed) ==
  \/ trimmed = <<>>
  \/ StartsWith(trimmed, <<"#">>)
  \/ StartsWith(trimmed, <<"/", "/">>)

\* scopeManager.addToScope on the state the loop has built so far: the scope
\* lists and files after it, and the count of the files it returns.
ScopeAfterAdd(st, filePath) ==
  LET excluded == Without(st.excludedPaths, filePath)
      scope == IF ~Includes(st.scopePaths, filePath)
                 THEN Append(st.scopePaths, filePath)
                 ELSE st.scopePaths
      added == {f \in FilesUnder(filePath) : PathInScope(scope, excluded, f)}
  IN [scopePaths |-> scope, excludedPaths |-> excluded,
      files |-> TrackFiles(st.files, added),
      addedFiles |-> st.addedFiles + Cardinality(added)]

\* The lines of the scope files of the model: a file and a folder of the
\* workspace, a bulleted file, a comment of each kind, a blank line, a path
\* above the workspace folder, and a folder of the workspace whose name
\* begins with two dots.
LineFileA == <<"s", "/", "a">>

LineBulletFileB == <<" ", "-", " ", "s", "/", "b">>

LineFolder == <<"/", "r", "/", "s", "/", ".", ".", "/", "s">>

LineHash == <<"#", "s", "/", "a">>

LineSlashes == <<"/", "/", "s">>

LineBlank == <<" ", " ">>

LineOutside == <<".", ".", "/", "s", "/", "a">>

LineDotsFolder == <<".", ".", "s">>

ScopeLines == {LineFileA, LineBulletFileB, LineFolder, LineHash, LineSlashes,
               LineBlank, LineOutside, LineDotsFolder}

\* What the loop makes of each line, computed once: whether it skips the
\* line, the resolved path, and whether isWithinWorkspace takes the path.
LineReadings ==
  [line \in ScopeLines |->
     LET trimmed == CleanedLine(line)
         filePath == PathResolve(RepoDir, trimmed)
     IN [filePath |-> filePath,
         skipped |-> IsSkippedLine(trimmed),
         within |-> IsWithinWorkspace(RepoDir, filePath)]]

\* One turn of the loop over the lines; addToScope throws for the paths in
\* failing, and the catch block goes on to the next line.
ScopeAfterLine(st, line, failing) ==
  LET read == LineReadings[line]
  IN IF read.skipped THEN st
     ELSE IF ~read.within THEN st
     ELSE IF read.filePath \in failing THEN st
     ELSE ScopeAfterAdd(st, read.filePath)

RECURSIVE ScopeAfterLines(_, _, _)
ScopeAfterLines(st, lines, failing) ==
  IF lines = <<>> THEN st
  ELSE ScopeAfterLines(ScopeAfterLine(st, Head(lines), failing), Tail(lines), failing)

\* The loadScopeFile command on a SCOPE.txt with these lines.
LoadScopeFile(lines, failing) ==
  LET st == ScopeAfterLines([scopePaths |-> scopePaths,
                             excludedPaths |-> excludedPaths,
                             files |-> files, addedFiles |-> 0], lines, failing)
  IN /\ Len(st.scopePaths) <= MaxScopePaths
     /\ scopePaths' = st.scopePaths
     /\ excludedPaths' = st.excludedPaths
     /\ files' = st.files
     /\ saves' = IF st.addedFiles > 0 THEN SaveCalled(saves) ELSE saves
     /\ lastOp' = [op |-> "loadScopeFile", path |-> <<>>, fns |-> <<>>,
                   prev |-> scopePaths, keys |-> failing, lines |-> lines]
     /\ UNCHANGED <<functionFilters, progressHistory, lastModified, disk, uiVars>>

\* The scope files of the model: no line, one line, any line before a line
\* with a path below the workspace folder, and three lines of which the
\* second is outside and the last a file of the workspace.
ScopeFileContents ==
  {<<>>} \cup {<<a>> : a \in ScopeLines}
  \cup {<<a, b>> : a \in ScopeLines,
                   b \in {LineFileA, LineBulletFileB, LineFolder, LineDotsFolder}}
  \cup {<<a, LineOutside, LineFileA>> : a \in ScopeLines}

\* The paths addToScope throws for: none, or the second file.
FailingAdds == {{}, {FileB}}

NextScopeFile ==
  \/ \E lines \in ScopeFileContents, failing \in FailingAdds :
       LoadScopeFile(lines, failing)
  \/ RemoveFromScopeFile(FileA)

SpecScopeFile == Init /\ [][NextScopeFile]_vars

\* The path a line names, and whether the line is a valid one: not blank, no
\* comment, a path at or below the workspace folder, and an add that does
\* not fail.
AtOrBelowWorkspace(filePath) == filePath = RepoDir \/ IsDescendant(filePath, RepoDir)

\* For each line: its path, whether it is blank or a comment, whether its
\* path is at or below the workspace folder, whether it begins with dots.
LineFacts ==
  [line \in ScopeLines |->
     [filePath |-> PathResolve(RepoDir, CleanedLine(line)),
      skipped |-> \/ CleanedLine(line) = <<>>
                  \/ StartsWith(CleanedLine(line), <<"#">>)
                  \/ StartsWith(CleanedLine(line), <<"/", "/">>),
      within |-> AtOrBelowWorkspace(PathResolve(RepoDir, CleanedLine(line))),
      dots |-> StartsWith(CleanedLine(line), <<".", ".">>)]]

LinePath(line) == LineFacts[line].filePath

IsValidLine(line, failing) ==
  /\ ~LineFacts[line].skipped
  /\ LineFacts[line].within
  /\ LinePath(line) \notin failing

\* C34: loadScopeFile adds the path of every valid line to the scope and
\* nothing else, wherever the line stands: a line whose path is outside the
\* workspace folder or whose add fails, a blank line and a comment add
\* nothing and do not end the loop.
C34_BadLinesSkippedNotFatal ==
  [][lastOp'.op = "loadScopeFile" =>
       Range(scopePaths') =
         Range(scopePaths) \cup
           {LinePath(lastOp'.lines[i]) :
              i \in {j \in 1..Len(lastOp'.lines) :
                       IsValidLine(lastOp'.lines[j], lastOp'.keys)}}]_vars

\* The same for the lines isWithinWorkspace takes as inside: the loop goes
\* on after every line it rejects.
C34_AcceptedLinesAdded ==
  [][lastOp'.op = "loadScopeFile" =>
       Range(scopePaths') =
         Range(scopePaths) \cup
           {LinePath(lastOp'.lines[i]) :
              i \in {j \in 1..Len(lastOp'.lines) :
                       /\ IsValidLine(lastOp'.lines[j], lastOp'.keys)
                       /\ ~LineFacts[lastOp'.lines[j]].dots}}]_vars


----------------------------------------------------------------------------
(* The commands with the save chain behind them: each handler changes the  *)
(* state and calls save(); the chain runs the writes one after another.    *)

NextPersist ==
  \/ \E i \in 1..MaxSaves : ChainReact(i)
  \/ \E i \in 1..MaxSaves : MkdirSettles(i)
  \/ \E i \in 1..MaxSaves : WriteFileResolves(i)
  \/ \E i \in 1..MaxSaves : WriteFileRejects(i)
  \/ Len(saves) < MaxSaves /\ AddToScope(SrcDir)
  \/ Len(saves) < MaxSaves /\ \E p \in WatchedFiles : RemoveFromScopeFile(p)
  \/ Len(saves) < MaxSaves /\ \E func \in FunctionTreeItems : MarkRead(func, 1)
  \/ Len(saves) < MaxSaves /\ LoadScopeFile(<<LineFolder>>, {})
  \/ OnDidChange(FileA)
  \/ Len(saves) < MaxSaves /\ RefreshFileSymbols(FileA, ProviderThrows)

SpecPersist == Init /\ [][NextPersist]_vars

\* Every save() issued so far has settled, the last write succeeded, and no
\* handler waits for its extraction.
Quiescent ==
  /\ Len(saves) > 0
  /\ \A i \in 1..Len(saves) : saves[i].promise # "pending"
  /\ saves[Len(saves)].run = "done"
  /\ inFlight = {}

\* The writes that have run, in the order of the chain, carry growing stamps:
\* each serialized the state as it was when it ran.
WritesInStateOrder ==
  \A i \in 1..Len(saves) : \A j \in 1..Len(saves) :
    /\ i < j
    /\ saves[i].run \in {"write", "done", "failed"}
    /\ saves[j].run \in {"write", "done", "failed"}
    => saves[i].doc.lastModified < saves[j].doc.lastModified

\* C35: every command handler saves after it changed the state, and a write
\* serializes the state of the moment it runs; so when every save issued has
\* settled, the last write succeeded and no handler is in flight, the state
\* file holds the in-memory state, and the writes persist states in order.
C35_PersistedEqualsMemory ==
  /\ Quiescent => disk = <<"doc", StateDoc(lastModified)>>
  /\ WritesInStateOrder

\* The same when the last command was not loadScopeFile, the command that
\* saves only if it added a file.
C35_SavingHandlersPersist ==
  /\ Quiescent /\ lastOp.op # "loadScopeFile" =>
       disk = <<"doc", StateDoc(lastModified)>>
  /\ WritesInStateOrder


----------------------------------------------------------------------------
(* Properties of the file watcher (SpecWatch).                             *)

\* C36: every tracked file is in scope, in every state the scope commands
\* and the watcher events reach in any interleaving, the refresh of a
\* changed file being awaited between the handler's scope check and its
\* store update.
C36_TrackedFilesInScope ==
  \A filePath \in DOMAIN files : IsPathInScope(filePath)


----------------------------------------------------------------------------
(* markRead from the panel while the files change: an item of the panel    *)
(* holds the record it was built from until the panel renders again.       *)

StaleSymbolLists ==
  { <<[name |-> "f", startLine |-> 10, kind |-> "Function", endLine |-> 10]>>,
    <<[name |-> "f", startLine |-> 40, kind |-> "Function", endLine |-> 40]>> }

NextStale ==
  \/ AddToScope(FileA)
  \/ OnDidChange(FileA)
  \/ \E l \in StaleSymbolLists : RefreshFileSymbols(FileA, <<"symbols", l>>)
  \/ \E func \in FunctionTreeItems : MarkRead(func, 1)
  \/ \E func \in staleItems : MarkRead(func, 1)
  \/ \E func \in FunctionTreeItems : UnmarkRead(func)
  \/ TreeRender

SpecStale == Init /\ [][NextStale]_vars

\* The stored functions a step takes from readCount 0 to a positive count,
\* as pairs of file and position.
NewlyRead ==
  {<<key, i>> \in (DOMAIN files) \X (1..MaxSymbols) :
     /\ key \in DOMAIN files'
     /\ i <= Len(files[key].functions)
     /\ i <= Len(files'[key].functions)
     /\ files[key].functions[i].readCount = 0
     /\ files'[key].functions[i].readCount > 0}

\* C37: in any interleaving of markRead with the refreshes of a changed file,
\* a markRead records as many functionRead actions as stored functions went
\* from readCount 0 to 1 in it, and none when it changed no stored function.
C37_ReadActionsMatchChanges ==
  [][lastOp'.op = "markRead" =>
       TotalCount(progressHistory', "functionRead")
         - TotalCount(progressHistory, "functionRead") = Cardinality(NewlyRead)]_vars


----------------------------------------------------------------------------
(* Re-extraction and review progress (SpecMerge).                          *)

DistinctNames(functions) ==
  \A i, j \in 1..Len(functions) :
    functions[i].name = functions[j].name => i = j

\* Every name the file had before the step and has after it keeps its flags.
NamesKeepFlags(prev, out) ==
  \A i \in 1..Len(prev), k \in 1..Len(out) :
    prev[i].name = out[k].name => SameFlags(prev[i], out[k])

\* C38: for a file whose function names are pairwise distinct in the stored
\* list and in the extracted one, setFileFunctions leaves the record of every
\* name present before and after with the readCount, isReviewed, isEntrypoint,
\* isAdmin and isHidden it had, at whatever start line the name now stands; so
\* does any sequence of such calls in which the name is always extracted.
C38_ProgressSurvivesReextraction ==
  [][(MergedStep /\ DistinctNames(PrevFunctions) /\ DistinctNames(lastOp'.fns))
       => NamesKeepFlags(PrevFunctions, OutFunctions)]_vars

C38_Witness ==
  /\ lastOp.op = "setFileFunctions"
  /\ lastOp.prev = <<FunctionId(FileA, "g", 40), FunctionId(FileA, "f", 10)>>
  /\ DistinctNames(files[FileA].functions)
  /\ Len(files[FileA].functions) = 2
  /\ files[FileA].functions[1].id = FunctionId(FileA, "f", 40)
  /\ files[FileA].functions[1].readCount = 1
  /\ files[FileA].functions[1].isHidden
  /\ files[FileA].functions[2].id = FunctionId(FileA, "g", 10)
  /\ files[FileA].functions[2].isEntrypoint


ReadFunctions(functions) ==
  {i \in 1..Len(functions) : functions[i].readCount > 0}

ReviewedFunctions(functions) ==
  {i \in 1..Len(functions) : functions[i].isReviewed}

\* C39: setFileFunctions hands the flags of each previous record to at most
\* one candidate, so a file has no more read functions and no more reviewed
\* functions after the call than before it, also when candidates or previous
\* records share a name.
C39_MergeCreatesNoProgress ==
  [][MergedStep =>
       /\ Cardinality(ReadFunctions(OutFunctions))
            <= Cardinality(ReadFunctions(PrevFunctions))
       /\ Cardinality(ReviewedFunctions(OutFunctions))
            <= Cardinality(ReviewedFunctions(PrevFunctions))]_vars

\* The same bound when the extracted names are pairwise distinct.
C39_DistinctNamesCreateNoProgress ==
  [][(MergedStep /\ DistinctNames(lastOp'.fns)) =>
       /\ Cardinality(ReadFunctions(OutFunctions))
            <= Cardinality(ReadFunctions(PrevFunctions))
       /\ Cardinality(ReviewedFunctions(OutFunctions))
            <= Cardinality(ReviewedFunctions(PrevFunctions))]_vars


----------------------------------------------------------------------------
(* The flag setters on loaded records, which may share an id.              *)

\* The ids the setters are called with: one that loaded records can share
\* and one that they may or may not hold.
SetterIds == {FunctionId(FileA, "f", 10), FunctionId(FileA, "g", 40)}

NextSetters ==
  \/ Load
  \/ \E id \in SetterIds, b \in BOOLEAN : SetRead(id, b)
  \/ \E id \in SetterIds, b \in BOOLEAN : SetReviewed(id, b)
  \/ \E id \in SetterIds, b \in BOOLEAN : SetEntrypoint(id, b)
  \/ \E id \in SetterIds, b \in BOOLEAN : SetAdmin(id, b)
  \/ \E id \in SetterIds, b \in BOOLEAN : SetHidden(id, b)

SpecSetters == InitWithTwoRecords /\ [][NextSetters]_vars

\* The stored functions, as pairs of file and position, a step changed.
ChangedFunctions ==
  {<<key, i>> \in (DOMAIN files) \X (1..MaxSymbols) :
     /\ i <= Len(files[key].functions)
     /\ files'[key].functions[i] # files[key].functions[i]}

\* What a setter called with id x for one field may do to the state.
SetterFrame(x, field) ==
  /\ DOMAIN files' = DOMAIN files
  /\ \A key \in DOMAIN files :
       /\ files'[key].filePath = files[key].filePath
       /\ Len(files'[key].functions) = Len(files[key].functions)
  /\ Cardinality(ChangedFunctions) <= 1
  /\ \A c \in ChangedFunctions :
       /\ files[c[1]].functions[c[2]].id = x
       /\ files'[c[1]].functions[c[2]] =
            [files[c[1]].functions[c[2]] EXCEPT
               ![field] = files'[c[1]].functions[c[2]][field]]
  /\ UNCHANGED <<scopePaths, excludedPaths, functionFilters, progressHistory>>
  /\ (\A key \in DOMAIN files : ~HasFunction(files[key], x)) => UNCHANGED stateVars

\* C40: a step of setRead, setReviewed, setEntrypoint, setAdmin or setHidden
\* with id x changes the one field the setter is named after, in at most one
\* stored function, whose id is x; the other fields of that function, the other
\* functions, scopePaths, excludedPaths, functionFilters and progressHistory
\* stay as they were, and with no stored function of id x the state does.
C40_SettersChangeOneField ==
  [][\A x \in SetterIds, b \in BOOLEAN :
       /\ SetRead(x, b) => SetterFrame(x, "readCount")
       /\ SetReviewed(x, b) => SetterFrame(x, "isReviewed")
       /\ SetEntrypoint(x, b) => SetterFrame(x, "isEntrypoint")
       /\ SetAdmin(x, b) => SetterFrame(x, "isAdmin")
       /\ SetHidden(x, b) => SetterFrame(x, "isHidden")]_vars

\* Two stored functions share an id and a setter reached one of them only.
C40_Witness ==
  /\ lastOp.op = "setFlag"
  /\ FileA \in DOMAIN files
  /\ Len(files[FileA].functions) = 2
  /\ files[FileA].functions[1].id = files[FileA].functions[2].id
  /\ files[FileA].functions[1].isEntrypoint
  /\ ~files[FileA].functions[2].isEntrypoint
  /\ files[FileA].functions[1].readCount = 1

====
